---- MODULE Spec2Model ----
(***************************************************************************)
(* Model of the CSC3301 grading scripts: the Grade Calculator              *)
(* (scripts/grade_calculator.py) and the Hidden Test Runner                *)
(* (scripts/run_hidden_tests.py).                                          *)
(*                                                                         *)
(* Text is a sequence of one-character strings, so that split() and        *)
(* float() are computed as Python computes them.  Numbers read from CSV    *)
(* cells are kept in tenths of a point (the files carry one decimal);      *)
(* weights are hundredths; a penalty is a multiple of 1/PenaltyUnit; a     *)
(* final score is a multiple of 1/FinalUnit of a point.  The arithmetic is *)
(* exact (rational), where Python rounds to the nearest double.            *)
(***************************************************************************)
EXTENDS Integers, Sequences, FiniteSets, TLC

VARIABLES
    penalty_evals,   \* calls of _calculate_plagiarism_penalty made so far: similarity -> result
    letter_eval,     \* the last call of _get_letter_grade: <<score, grade>>, or <<>>
    weights,         \* GradeCalculator.weights
    grades,          \* GradeCalculator.grades: student_id -> GradeRecord
    visible_csv,     \* rows of the file load_visible_scores has read
    hidden_csv,      \* rows of the file load_hidden_scores has read
    plagiarism_csv,  \* rows of the file load_plagiarism_results has read
    known_at_plagiarism, \* the keys of grades when load_plagiarism_results was called
    calls,           \* the methods of the calculator that have returned, in order
    raised,          \* the exception that ended the last call, or ""
    main_pc,         \* where main() of grade_calculator.py stands
    pool,            \* which input files the environment holds
    output,          \* rows written by export_grades
    language,        \* HiddenTestRunner.language
    interpreter,     \* whether shutil.which finds the interpreter of the language
    submissions,     \* the entries of the submissions directory
    htr_pc,          \* where run_all stands
    queue,           \* the submissions run_all has still to process, in order
    running,         \* the submission run_on_submission is working on
    tmpdirs,         \* the temporary directories that exist
    results,         \* the list run_all is building
    events,          \* what befell each submission processed so far: name -> event
    hidden_tests,    \* the hidden tests directory of the assignment: "missing", or its files
    quiet,           \* the --quiet flag of run_hidden_tests.py
    site_packages,   \* the packages installed in the interpreter that runs the tests
    observed,        \* the packages each submission's run found installed: name -> set
    sandboxes,       \* the submissions a temporary directory was created for
    exported,        \* the rows export_results wrote, or None
    score_evals,     \* score computations made so far: a set of records
    extract_eval,    \* the last student-id extraction: a record, or <<>>
    skip_clone,      \* the --skip-clone flag of full_grading_pipeline.py
    scripts,         \* the scripts present in the scripts directory
    submissions_dir, \* the entries of PipelineConfig.submissions_dir
    pipe_pc,         \* where run_full_pipeline stands
    files,           \* the artifact files that exist
    stage_log,       \* the steps of the pipeline called so far, in order
    returned,        \* the path each step returned: step -> path
    received,        \* the arguments each step was called with: step -> paths
    clock,           \* datetime.now(), in seconds
    runs,            \* the PipelineConfig of each run of the pipeline started so far
    inject_eval      \* the last customization of a test template: a record, or <<>>

vars == <<penalty_evals, letter_eval, weights, grades, visible_csv, hidden_csv,
          plagiarism_csv, known_at_plagiarism, calls, raised, main_pc, pool, output,
          language, interpreter, submissions, htr_pc, queue, running, tmpdirs, results,
          events, hidden_tests, quiet, site_packages, observed, sandboxes, exported,
          score_evals, extract_eval, skip_clone, scripts, submissions_dir, pipe_pc,
          files, stage_log, returned, received, clock, runs, inject_eval>>

unit_vars == <<penalty_evals, letter_eval, score_evals, extract_eval, clock, runs, inject_eval>>

htr_vars == <<language, interpreter, submissions, htr_pc, queue, running, tmpdirs, results,
              events, hidden_tests, quiet, site_packages, observed, sandboxes, exported>>

pipe_vars == <<skip_clone, scripts, submissions_dir, pipe_pc, files, stage_log, returned,
               received>>

gc_vars_but_pc == <<weights, grades, visible_csv, hidden_csv, plagiarism_csv,
                    known_at_plagiarism, calls, raised, pool, output>>

gc_vars == <<weights, grades, visible_csv, hidden_csv, plagiarism_csv,
             known_at_plagiarism, calls, raised, main_pc, pool, output>>

non_gc_vars == <<unit_vars, htr_vars, pipe_vars>>

non_htr_vars == <<unit_vars, gc_vars, pipe_vars>>

non_pipe_vars == <<unit_vars, gc_vars, htr_vars>>

----------------------------------------------------------------------------
(* Bounds of the model *)

MaxSimilarity == 100      \* similarities tried on the penalty function: 0..MaxSimilarity points
MaxPenaltyEvals == 2      \* calls of the penalty function kept side by side
MaxFinalTenths == 1000    \* final scores tried on the letter grade: up to 100.0
NegFinalTenths == 5       \* ... and down to -0.5
MaxScoreRows == 2         \* rows of a visible or hidden score file
MaxPlagiarismRows == 2    \* rows of a plagiarism report
MaxTests == 2             \* tests a test run reports
MaxScoreEvals == 3        \* score computations kept side by side
MaxNameLen == 4           \* characters of a repository name tried on the extractions
MaxClock == 125      \* seconds the clock runs
MaxRuns == 2         \* runs of the pipeline
MaxChunks == 3       \* pieces of a test template

----------------------------------------------------------------------------
(* Text *)

\* Python's None, kept apart from every text (no text has a multi-character element)
None == <<"None">>

Digit == [c \in {"0", "1", "2", "3", "4", "5", "6", "7", "8", "9"} |->
            CASE c = "0" -> 0 [] c = "1" -> 1 [] c = "2" -> 2 [] c = "3" -> 3
              [] c = "4" -> 4 [] c = "5" -> 5 [] c = "6" -> 6 [] c = "7" -> 7
              [] c = "8" -> 8 [] c = "9" -> 9]

IsDigits(t) == Len(t) > 0 /\ \A i \in 1..Len(t) : t[i] \in DOMAIN Digit

RECURSIVE ParseInt(_)
ParseInt(t) == IF t = <<>> THEN 0
               ELSE 10 * ParseInt(SubSeq(t, 1, Len(t) - 1)) + Digit[t[Len(t)]]

\* a number of points, in the tenths the model counts scores in
Points(n) == 10 * n

\* str.split(sep): the pieces of t between the occurrences of the character sep
RECURSIVE split(_, _)
split(t, sep) ==
    IF \E i \in 1..Len(t) : t[i] = sep
    THEN LET i == CHOOSE k \in 1..Len(t) :
                      t[k] = sep /\ \A j \in 1..(k - 1) : t[j] # sep
         IN  <<SubSeq(t, 1, i - 1)>> \o split(SubSeq(t, i + 1, Len(t)), sep)
    ELSE <<t>>

Contains(t, c) == \E i \in 1..Len(t) : t[i] = c

\* float(x) for the texts the score files hold: digits, optionally followed by
\* a point and one digit; any other text raises ValueError.  The value is in tenths.
float(t) ==
    IF IsDigits(t) THEN [raised |-> FALSE, value |-> Points(ParseInt(t))]
    ELSE IF /\ Len(t) >= 3
            /\ t[Len(t) - 1] = "."
            /\ IsDigits(SubSeq(t, 1, Len(t) - 2))
            /\ t[Len(t)] \in DOMAIN Digit
         THEN [raised |-> FALSE,
               value |-> Points(ParseInt(SubSeq(t, 1, Len(t) - 2))) + Digit[t[Len(t)]]]
         ELSE [raised |-> TRUE, value |-> 0]

----------------------------------------------------------------------------
(* Grade Calculator: constants *)

\* in hundredths
DEFAULT_WEIGHTS ==
    [visible_tests |-> 40, hidden_tests |-> 30, code_quality |-> 20, participation |-> 10]

\* in points
PLAGIARISM_THRESHOLDS == [warning |-> 40, penalty_start |-> 50, severe |-> 80]

GRADE_BOUNDARIES ==
    << <<90, "A+">>, <<85, "A">>, <<80, "A-">>,
       <<75, "B+">>, <<70, "B">>, <<65, "B-">>,
       <<60, "C+">>, <<55, "C">>, <<50, "C-">>,
       <<45, "D+">>, <<40, "D">>,
       <<0, "F">> >>

\* 1.00 as a weight
WeightUnit == DEFAULT_WEIGHTS.visible_tests + DEFAULT_WEIGHTS.hidden_tests
              + DEFAULT_WEIGHTS.code_quality + DEFAULT_WEIGHTS.participation

\* 1.0 as a penalty: the unit in which the linear ramp is exact for similarities in tenths
PenaltyUnit ==
    2 * (Points(PLAGIARISM_THRESHOLDS.severe) - Points(PLAGIARISM_THRESHOLDS.penalty_start))

\* one point of final score
FinalUnit == Points(1) * WeightUnit * PenaltyUnit

----------------------------------------------------------------------------
(* Grade Calculator: the pure functions *)

\* the penalty, in 1/PenaltyUnit, of a similarity in tenths
penalty_start_at_warning(similarity) ==
    IF similarity < Points(PLAGIARISM_THRESHOLDS.warning) THEN 0
    ELSE IF similarity >= Points(PLAGIARISM_THRESHOLDS.severe) THEN PenaltyUnit \div 2
    ELSE LET start == Points(PLAGIARISM_THRESHOLDS.warning)
             severe == Points(PLAGIARISM_THRESHOLDS.severe)
             penalty_range == PenaltyUnit \div 2
         IN  ((similarity - start) * penalty_range) \div (severe - start)

_calculate_plagiarism_penalty(similarity) ==
    IF similarity < Points(PLAGIARISM_THRESHOLDS.penalty_start) THEN 0
    ELSE IF similarity >= Points(PLAGIARISM_THRESHOLDS.severe) THEN PenaltyUnit \div 2
    ELSE LET start == Points(PLAGIARISM_THRESHOLDS.penalty_start)
             severe == Points(PLAGIARISM_THRESHOLDS.severe)
             penalty_range == PenaltyUnit \div 2
         IN  ((similarity - start) * penalty_range) \div (severe - start)

\* the loop of _get_letter_grade from entry i of the table on; score in 1/FinalUnit
RECURSIVE letter_grade_from(_, _)
letter_grade_from(i, score) ==
    IF i > Len(GRADE_BOUNDARIES) THEN "F"
    ELSE IF score >= GRADE_BOUNDARIES[i][1] * FinalUnit THEN GRADE_BOUNDARIES[i][2]
    ELSE letter_grade_from(i + 1, score)

RECURSIVE letter_grade_from_strict(_, _)
letter_grade_from_strict(i, score) ==
    IF i > Len(GRADE_BOUNDARIES) THEN "F"
    ELSE IF score > GRADE_BOUNDARIES[i][1] * FinalUnit THEN GRADE_BOUNDARIES[i][2]
    ELSE letter_grade_from_strict(i + 1, score)

letter_grade_strict(score) == letter_grade_from_strict(1, score)


_get_letter_grade(score) == letter_grade_from(1, score)

----------------------------------------------------------------------------
(* Grade Calculator: CSV rows and the merge table *)

\* a row of csv.DictReader: column name -> text
get(row, key) == IF key \in DOMAIN row THEN row[key] ELSE None

\* Python's truth of a text or None
Truthy(x) == x # None /\ x # <<>>

\* Python's `a or b`
Or(a, b) == IF Truthy(a) THEN a ELSE b

\* float(cell or 0): the cell is the result of a chain of `or` over texts
float_or_0(cell) == IF Truthy(cell) THEN float(cell) ELSE [raised |-> FALSE, value |-> 0]

GradeRecord(student_id) ==
    [student_id |-> student_id,
     github_username |-> <<>>,
     visible_score |-> 0,
     hidden_score |-> 0,
     code_quality_score |-> Points(100),
     plagiarism_similarity |-> 0,
     plagiarism_flag |-> FALSE,
     plagiarism_partner |-> <<>>,
     final_score |-> 0,
     letter_grade |-> "",
     comments |-> <<>>]

\* self.grades with a record for student_id, created if there is none
with_record(g, student_id) ==
    IF student_id \in DOMAIN g THEN g ELSE g @@ (student_id :> GradeRecord(student_id))

RECURSIVE load_visible_rows_fresh_record(_, _)
load_visible_rows_fresh_record(g, rows) ==
    IF rows = <<>> THEN [grades |-> g, raised |-> ""]
    ELSE LET row == Head(rows)
             student_id == Or(Or(get(row, "identifier"), get(row, "student_id")),
                              get(row, "Student ID"))
             score == float_or_0(Or(Or(get(row, "grade"), get(row, "score")),
                                    get(row, "Visible Score")))
         IN  IF score.raised THEN [grades |-> g, raised |-> "ValueError"]
             ELSE load_visible_rows_fresh_record(
                      (student_id :> [GradeRecord(student_id) EXCEPT
                                          !.visible_score = score.value]) @@ g,
                      Tail(rows))

\* the loop of load_visible_scores over the rows left to read
RECURSIVE load_visible_rows(_, _)
load_visible_rows(g, rows) ==
    IF rows = <<>> THEN [grades |-> g, raised |-> ""]
    ELSE LET row == Head(rows)
             student_id == Or(Or(get(row, "identifier"), get(row, "student_id")),
                              get(row, "Student ID"))
             score == float_or_0(Or(Or(get(row, "grade"), get(row, "score")),
                                    get(row, "Visible Score")))
         IN  IF score.raised THEN [grades |-> g, raised |-> "ValueError"]
             ELSE load_visible_rows(
                      [with_record(g, student_id) EXCEPT ![student_id].visible_score = score.value],
                      Tail(rows))

RECURSIVE load_hidden_rows_known_only(_, _)
load_hidden_rows_known_only(g, rows) ==
    IF rows = <<>> THEN [grades |-> g, raised |-> ""]
    ELSE LET row == Head(rows)
             student_id == Or(get(row, "Student ID"), get(row, "student_id"))
             score == float_or_0(Or(get(row, "Hidden Score"), get(row, "hidden_score")))
         IN  IF score.raised THEN [grades |-> g, raised |-> "ValueError"]
             ELSE load_hidden_rows_known_only(
                      IF student_id \in DOMAIN g
                      THEN [g EXCEPT ![student_id].hidden_score = score.value]
                      ELSE g,
                      Tail(rows))

\* the loop of load_hidden_scores over the rows left to read
RECURSIVE load_hidden_rows(_, _)
load_hidden_rows(g, rows) ==
    IF rows = <<>> THEN [grades |-> g, raised |-> ""]
    ELSE LET row == Head(rows)
             student_id == Or(get(row, "Student ID"), get(row, "student_id"))
             score == float_or_0(Or(get(row, "Hidden Score"), get(row, "hidden_score")))
             repository == IF "Repository" \in DOMAIN row THEN row["Repository"] ELSE <<>>
             parts == split(repository, "/")
         IN  IF score.raised THEN [grades |-> g, raised |-> "ValueError"]
             ELSE load_hidden_rows(
                      [with_record(g, student_id) EXCEPT
                           ![student_id].hidden_score = score.value,
                           ![student_id].github_username = parts[Len(parts)]],
                      Tail(rows))

plagiarism_student_id_first_token(sid) ==
    IF Contains(sid, "-") THEN split(sid, "-")[1] ELSE sid

\* the student id of a submission name of the plagiarism report
plagiarism_student_id(sid) ==
    IF Contains(sid, "-") THEN LET parts == split(sid, "-") IN parts[Len(parts)] ELSE sid

\* one pass of the inner loop of load_plagiarism_results: (sid, partner) at similarity
update_plagiarism_keep_last(g, sid, partner, similarity) ==
    LET student_id == plagiarism_student_id(sid)
    IN  IF student_id \in DOMAIN g
        THEN [g EXCEPT ![student_id].plagiarism_similarity = similarity,
                       ![student_id].plagiarism_partner = partner]
        ELSE g

update_plagiarism_add_student(g, sid, partner, similarity) ==
    LET student_id == plagiarism_student_id(sid)
        g1 == with_record(g, student_id)
    IN  IF similarity > g1[student_id].plagiarism_similarity
        THEN [g1 EXCEPT ![student_id].plagiarism_similarity = similarity,
                        ![student_id].plagiarism_partner = partner]
        ELSE g1

update_plagiarism(g, sid, partner, similarity) ==
    LET student_id == plagiarism_student_id(sid)
    IN  IF student_id \in DOMAIN g
        THEN LET current == g[student_id].plagiarism_similarity
             IN  IF similarity > current
                 THEN [g EXCEPT ![student_id].plagiarism_similarity = similarity,
                                ![student_id].plagiarism_partner = partner]
                 ELSE g
        ELSE g

\* the loop of load_plagiarism_results over the rows left to read
RECURSIVE load_plagiarism_rows(_, _)
load_plagiarism_rows(g, rows) ==
    IF rows = <<>> THEN [grades |-> g, raised |-> ""]
    ELSE LET row == Head(rows)
             student1 == Or(Or(get(row, "submission1"), get(row, "Student 1")), get(row, "first"))
             student2 == Or(Or(get(row, "submission2"), get(row, "Student 2")), get(row, "second"))
             similarity == float_or_0(Or(Or(get(row, "similarity"), get(row, "Similarity")),
                                         get(row, "percent")))
         IN  IF similarity.raised THEN [grades |-> g, raised |-> "ValueError"]
             ELSE IF student1 = None THEN [grades |-> g, raised |-> "TypeError"]
             ELSE LET g1 == update_plagiarism(g, student1, student2, similarity.value)
                  IN  IF student2 = None THEN [grades |-> g1, raised |-> "TypeError"]
                      ELSE load_plagiarism_rows(
                               update_plagiarism(g1, student2, student1, similarity.value),
                               Tail(rows))

\* a file is the sequence of its rows, or NoFile when the path does not exist
NoFile == << <<"no such file">> >>

load_visible_scores(g, file) ==
    IF file = NoFile THEN [grades |-> g, raised |-> "FileNotFoundError"]
    ELSE load_visible_rows(g, file)

load_hidden_scores(g, file) ==
    IF file = NoFile THEN [grades |-> g, raised |-> "FileNotFoundError"]
    ELSE load_hidden_rows(g, file)

load_plagiarism_results(g, file) ==
    IF file = NoFile THEN [grades |-> g, raised |-> ""]
    ELSE load_plagiarism_rows(g, file)

----------------------------------------------------------------------------
(* Grade Calculator: final grades and export *)

\* round(n / d) to the nearest integer, ties to even: the f"{x:.0f}" and f"{x:.1f}" of a value n/d
RoundHalfEven(n, d) ==
    LET q == n \div d
        r == n % d
    IN  IF 2 * r < d THEN q
        ELSE IF 2 * r > d THEN q + 1
        ELSE IF q % 2 = 0 THEN q ELSE q + 1

\* the weighted base score of a record, in 1/(Points(1) * WeightUnit) of a point
base_score(record, w) ==
    record.visible_score * w.visible_tests
    + record.hidden_score * w.hidden_tests
    + record.code_quality_score * w.code_quality

warning_comment(record) ==
    [kind |-> "Plagiarism warning",
     percent |-> RoundHalfEven(record.plagiarism_similarity, Points(1)),
     partner |-> record.plagiarism_partner]

penalty_comment(penalty) ==
    [kind |-> "Plagiarism penalty", percent |-> RoundHalfEven(penalty * 100, PenaltyUnit)]

\* the body of the loop of calculate_final_grades, for one record
final_grade_penalty_at_warning(record, w) ==
    LET flagged == record.plagiarism_similarity >= Points(PLAGIARISM_THRESHOLDS.warning)
        r1 == IF flagged
              THEN [record EXCEPT !.plagiarism_flag = TRUE,
                                  !.comments = Append(@, warning_comment(record))]
              ELSE record
        penalty == penalty_start_at_warning(record.plagiarism_similarity)
        r2 == IF penalty > 0
              THEN [r1 EXCEPT !.final_score = base_score(record, w) * (PenaltyUnit - penalty),
                              !.comments = Append(@, penalty_comment(penalty))]
              ELSE [r1 EXCEPT !.final_score = base_score(record, w) * PenaltyUnit]
    IN  [r2 EXCEPT !.letter_grade = _get_letter_grade(r2.final_score)]

final_grade_comment_always(record, w) ==
    LET flagged == record.plagiarism_similarity >= Points(PLAGIARISM_THRESHOLDS.warning)
        r1 == IF flagged
              THEN [record EXCEPT !.plagiarism_flag = TRUE,
                                  !.comments = Append(@, warning_comment(record))]
              ELSE record
        penalty == _calculate_plagiarism_penalty(record.plagiarism_similarity)
        r2 == IF penalty >= 0
              THEN [r1 EXCEPT !.final_score = base_score(record, w) * (PenaltyUnit - penalty),
                              !.comments = Append(@, penalty_comment(penalty))]
              ELSE [r1 EXCEPT !.final_score = base_score(record, w) * PenaltyUnit]
    IN  [r2 EXCEPT !.letter_grade = _get_letter_grade(r2.final_score)]

final_grade(record, w) ==
    LET flagged == record.plagiarism_similarity >= Points(PLAGIARISM_THRESHOLDS.warning)
        r1 == IF flagged
              THEN [record EXCEPT !.plagiarism_flag = TRUE,
                                  !.comments = Append(@, warning_comment(record))]
              ELSE record
        penalty == _calculate_plagiarism_penalty(record.plagiarism_similarity)
        r2 == IF penalty > 0
              THEN [r1 EXCEPT !.final_score = base_score(record, w) * (PenaltyUnit - penalty),
                              !.comments = Append(@, penalty_comment(penalty))]
              ELSE [r1 EXCEPT !.final_score = base_score(record, w) * PenaltyUnit]
    IN  [r2 EXCEPT !.letter_grade = _get_letter_grade(r2.final_score)]

calculate_final_grades(g, w) == [student_id \in DOMAIN g |-> final_grade(g[student_id], w)]

\* the characters of the model's texts, in code-point order
Alphabet ==
    <<"-", ".", "/", "0", "1", "2", "3", "4", "5", "6", "7", "8", "9", "X", "Y",
      "a", "b", "c", "d", "e", "g", "i", "l", "n", "o", "r", "s", "t", "v">>

ord(c) == CHOOSE i \in 1..Len(Alphabet) : Alphabet[i] = c

\* Python's a < b on two texts
RECURSIVE TextLess(_, _)
TextLess(a, b) ==
    IF b = <<>> THEN FALSE
    ELSE IF a = <<>> THEN TRUE
    ELSE IF a[1] = b[1] THEN TextLess(Tail(a), Tail(b))
    ELSE ord(a[1]) < ord(b[1])

RECURSIVE sorted_descending(_)
sorted_descending(keys) ==
    IF keys = {} THEN <<>>
    ELSE LET most == CHOOSE k \in keys : \A other \in keys \ {k} : TextLess(other, k)
         IN  <<most>> \o sorted_descending(keys \ {most})

\* sorted(keys): the texts of a set in ascending order
RECURSIVE sorted(_)
sorted(keys) ==
    IF keys = {} THEN <<>>
    ELSE LET least == CHOOSE k \in keys : \A other \in keys \ {k} : TextLess(k, other)
         IN  <<least>> \o sorted(keys \ {least})

\* the row export_grades writes for a record; the scores in tenths, as "%.1f" prints them
grade_row(record) ==
    [student_id |-> record.student_id,
     github_username |-> record.github_username,
     visible_score |-> record.visible_score,
     hidden_score |-> record.hidden_score,
     code_quality |-> record.code_quality_score,
     plagiarism |-> record.plagiarism_similarity,
     plagiarism_flag |-> IF record.plagiarism_flag THEN "YES" ELSE "NO",
     final_score |-> RoundHalfEven(record.final_score, FinalUnit \div Points(1)),
     letter_grade |-> record.letter_grade,
     comments |-> record.comments]

export_grades_reversed(g) ==
    IF None \in DOMAIN g /\ Cardinality(DOMAIN g) >= 2
    THEN [rows |-> <<>>, raised |-> "TypeError"]
    ELSE IF DOMAIN g = {None}
    THEN [rows |-> <<grade_row(g[None])>>, raised |-> ""]
    ELSE LET order == sorted(DOMAIN g)
         IN  [rows |-> [i \in 1..Len(order) |-> grade_row(g[order[Len(order) + 1 - i]])],
              raised |-> ""]

\* export_grades: the data rows in the order of sorted(); comparing None with a text raises
export_grades(g) ==
    IF None \in DOMAIN g /\ Cardinality(DOMAIN g) >= 2
    THEN [rows |-> <<>>, raised |-> "TypeError"]
    ELSE IF DOMAIN g = {None}
    THEN [rows |-> <<grade_row(g[None])>>, raised |-> ""]
    ELSE LET order == sorted(DOMAIN g)
         IN  [rows |-> [i \in 1..Len(order) |-> grade_row(g[order[i]])], raised |-> ""]

----------------------------------------------------------------------------
(* The input files of the environment *)

alice == <<"a", "l", "i", "c", "e">>
bob == <<"b", "o", "b">>
carol == <<"c", "a", "r", "o", "l">>
labX_alice == <<"l", "a", "b", "X", "-">> \o alice
labX_bob == <<"l", "a", "b", "X", "-">> \o bob

\* rows of a visible-score CSV (export_grades.py writes identifier, grade)
VisibleRows ==
    { ("identifier" :> alice) @@ ("grade" :> <<"1", "0", "0">>),
      ("identifier" :> bob) @@ ("grade" :> <<"1", "0", "0">>),
      ("student_id" :> alice) @@ ("score" :> <<"5", "0", ".", "5">>) }

\* rows of a hidden-score CSV (run_hidden_tests.py writes Student ID, Repository, Hidden Score)
HiddenRows ==
    { ("Student ID" :> alice) @@ ("Repository" :> <<"s", "/">> \o labX_alice)
          @@ ("Hidden Score" :> <<"8", "0", ".", "0">>),
      ("Student ID" :> bob) @@ ("Repository" :> <<"s", "/">> \o labX_bob)
          @@ ("Hidden Score" :> <<"3", "0", ".", "0">>) }

PlagiarismRow(first, second, similarity) ==
    ("submission1" :> first) @@ ("submission2" :> second) @@ ("similarity" :> similarity)

\* rows of a plagiarism report, for the merge: two rows can name one student at
\* a rising, a falling or a zero similarity, and can name a student of no score file
MergePlagiarismRows ==
    { PlagiarismRow(labX_alice, labX_bob, <<"8", "5">>),
      PlagiarismRow(labX_bob, labX_alice, <<"4", "5">>),
      PlagiarismRow(labX_alice, carol, <<"0">>),
      PlagiarismRow(carol, labX_bob, <<"6", "5">>) }

\* rows of a plagiarism report, for the grading: similarities on both sides of
\* every threshold of the penalty
GradingPlagiarismRows ==
    { PlagiarismRow(labX_alice, labX_bob, <<"8", "5">>),
      PlagiarismRow(labX_bob, labX_alice, <<"4", "5">>),
      PlagiarismRow(labX_alice, carol, <<"5", "0">>),
      PlagiarismRow(carol, labX_bob, <<"3", "9", ".", "9">>),
      PlagiarismRow(labX_alice, labX_bob, <<"0">>),
      PlagiarismRow(carol, labX_bob, <<"6", "5">>),
      PlagiarismRow(carol, labX_alice, <<"4", "0">>) }

PlagiarismRows == IF pool = "merge" THEN MergePlagiarismRows ELSE GradingPlagiarismRows

SeqsUpTo(S, n) == UNION {[1..k -> S] : k \in 0..n}

\* rows of a score file that is not well formed: no identity column, a score that
\* is no number
MalformedVisibleRows ==
    { ("identifier" :> alice) @@ ("grade" :> <<"1", "0", "0">>),
      ("name" :> bob) @@ ("grade" :> <<"9", "0">>),
      ("identifier" :> bob) @@ ("grade" :> <<"n", "/", "a">>) }

MalformedHiddenRows ==
    { ("Student ID" :> bob) @@ ("Repository" :> <<"s", "/">> \o labX_bob)
          @@ ("Hidden Score" :> <<"3", "0", ".", "0">>),
      ("Repository" :> <<"s", "/">> \o labX_alice) @@ ("Hidden Score" :> <<"8", "0", ".", "0">>),
      ("Student ID" :> alice) @@ ("Repository" :> <<"s", "/">> \o labX_alice)
          @@ ("Hidden Score" :> <<"e", "r", "r">>) }

MalformedPlagiarismRows ==
    { PlagiarismRow(labX_alice, labX_bob, <<"8", "5">>),
      PlagiarismRow(labX_alice, labX_bob, <<"h", "i", "g", "h">>),
      ("submission2" :> labX_bob) @@ ("similarity" :> <<"8", "5">>) }

VisibleFiles ==
    IF pool = "malformed" THEN SeqsUpTo(MalformedVisibleRows, MaxScoreRows) \cup {NoFile}
    ELSE SeqsUpTo(VisibleRows, MaxScoreRows)

HiddenFiles ==
    IF pool = "malformed" THEN SeqsUpTo(MalformedHiddenRows, MaxScoreRows) \cup {NoFile}
    ELSE SeqsUpTo(HiddenRows, MaxScoreRows)

PlagiarismFiles ==
    IF pool = "malformed"
    THEN SeqsUpTo(MalformedPlagiarismRows, MaxPlagiarismRows) \cup {NoFile}
    ELSE SeqsUpTo(PlagiarismRows, MaxPlagiarismRows) \cup {NoFile}

\* the weights of a config file, if one is given (config["weights"])
Configs == {<<>>, ("visible_tests" :> 50) @@ ("code_quality" :> 10)}

\* GradeCalculator.__init__: the default weights, updated by those of the config
init_weights(config) ==
    [k \in DOMAIN DEFAULT_WEIGHTS |->
        IF config # <<>> /\ k \in DOMAIN config THEN config[k] ELSE DEFAULT_WEIGHTS[k]]

----------------------------------------------------------------------------
(* Grade Calculator: the operations *)

Range(f) == {f[i] : i \in DOMAIN f}

NotRead == << <<"not read">> >>

GCInit ==
    /\ weights \in {init_weights(config) : config \in Configs}
    /\ grades = <<>>
    /\ visible_csv = NotRead
    /\ hidden_csv = NotRead
    /\ plagiarism_csv = NotRead
    /\ known_at_plagiarism = {}
    /\ calls = <<>>
    /\ raised = ""
    /\ output = <<>>

\* the effect of a load that returned r on the calculator
Loaded(name, r) ==
    /\ grades' = r.grades
    /\ raised' = r.raised
    /\ calls' = IF r.raised = "" THEN Append(calls, name) ELSE calls

DoLoadVisible(file) ==
    /\ Loaded("load_visible_scores", load_visible_scores(grades, file))
    /\ visible_csv' = file
    /\ UNCHANGED <<weights, hidden_csv, plagiarism_csv, known_at_plagiarism, pool, output>>

DoLoadHidden(file) ==
    /\ Loaded("load_hidden_scores", load_hidden_scores(grades, file))
    /\ hidden_csv' = file
    /\ UNCHANGED <<weights, visible_csv, plagiarism_csv, known_at_plagiarism, pool, output>>

DoLoadPlagiarism(file) ==
    /\ Loaded("load_plagiarism_results", load_plagiarism_results(grades, file))
    /\ plagiarism_csv' = file
    /\ known_at_plagiarism' = DOMAIN grades
    /\ UNCHANGED <<weights, visible_csv, hidden_csv, pool, output>>

DoCalculateFinalGrades ==
    /\ grades' = calculate_final_grades(grades, weights)
    /\ calls' = Append(calls, "calculate_final_grades")
    /\ UNCHANGED <<weights, visible_csv, hidden_csv, plagiarism_csv, known_at_plagiarism,
                   raised, pool, output>>

DoExportGrades ==
    LET r == export_grades(grades)
    IN  /\ output' = r.rows
        /\ raised' = r.raised
        /\ calls' = IF r.raised = "" THEN Append(calls, "export_grades") ELSE calls
        /\ UNCHANGED <<weights, grades, visible_csv, hidden_csv, plagiarism_csv,
                       known_at_plagiarism, pool>>

\* print_summary divides by the number of students
DoPrintSummary ==
    /\ raised' = IF DOMAIN grades = {} THEN "ZeroDivisionError" ELSE ""
    /\ calls' = IF DOMAIN grades = {} THEN calls ELSE Append(calls, "print_summary")
    /\ UNCHANGED <<weights, grades, visible_csv, hidden_csv, plagiarism_csv,
                   known_at_plagiarism, pool, output>>

(* The methods called on a calculator in any order, each load at most once *)

Called(name) == name \in Range(calls)

LoadVisible ==
    /\ main_pc = "api" /\ raised = "" /\ ~Called("load_visible_scores")
    /\ \E file \in VisibleFiles : DoLoadVisible(file)
    /\ UNCHANGED <<main_pc, non_gc_vars>>

LoadHidden ==
    /\ main_pc = "api" /\ raised = "" /\ ~Called("load_hidden_scores")
    /\ \E file \in HiddenFiles : DoLoadHidden(file)
    /\ UNCHANGED <<main_pc, non_gc_vars>>

LoadPlagiarism ==
    /\ main_pc = "api" /\ raised = "" /\ ~Called("load_plagiarism_results")
    /\ \E file \in PlagiarismFiles : DoLoadPlagiarism(file)
    /\ UNCHANGED <<main_pc, non_gc_vars>>

\* calculate_final_grades and export_grades called on the calculator
Calculate ==
    /\ main_pc = "api" /\ raised = "" /\ ~Called("calculate_final_grades")
    /\ DoCalculateFinalGrades
    /\ UNCHANGED <<main_pc, non_gc_vars>>

Export ==
    /\ main_pc = "api" /\ raised = "" /\ Called("calculate_final_grades")
    /\ ~Called("export_grades")
    /\ DoExportGrades
    /\ UNCHANGED <<main_pc, non_gc_vars>>

(* main() of grade_calculator.py: an uncaught exception ends the process *)

\* ArgumentParser(): the help option takes -h and --help
HelpOptions == {"-h", "--help"}

\* the option strings main() gives to add_argument, in order
MainOptions ==
    <<{"--visible", "-v"}, {"--hidden", "-h"}, {"--plagiarism", "-p"}, {"--config", "-c"},
      {"--output", "-o"}>>

\* add_argument, one call after the other: an option string already taken raises
\* ArgumentError (the parser's conflict handler is the default, "error")
RECURSIVE add_arguments(_, _)
add_arguments(registered, options) ==
    IF options = <<>> THEN ""
    ELSE IF Head(options) \cap registered # {} THEN "ArgumentError"
    ELSE add_arguments(registered \cup Head(options), Tail(options))

\* main() from its first line to parse_args
build_parser == add_arguments(HelpOptions, MainOptions)

\* what the command `python grade_calculator.py --output ...` leaves at the output path:
\* the file export_grades writes, if main() comes that far and the writing succeeds
command_writes_output(written) == build_parser = "" /\ written

MainStep(next) == main_pc' = IF raised' = "" THEN next ELSE "raised"

MainLoadVisible ==
    /\ main_pc = "visible"
    /\ \/ \E file \in VisibleFiles : DoLoadVisible(file)
       \/ UNCHANGED gc_vars_but_pc
    /\ MainStep("hidden")
    /\ UNCHANGED non_gc_vars

MainLoadHidden ==
    /\ main_pc = "hidden"
    /\ \/ \E file \in HiddenFiles : DoLoadHidden(file)
       \/ UNCHANGED gc_vars_but_pc
    /\ MainStep("plagiarism")
    /\ UNCHANGED non_gc_vars

MainLoadPlagiarism ==
    /\ main_pc = "plagiarism"
    /\ \/ \E file \in PlagiarismFiles : DoLoadPlagiarism(file)
       \/ UNCHANGED gc_vars_but_pc
    /\ MainStep("calculate")
    /\ UNCHANGED non_gc_vars

MainCalculate ==
    /\ main_pc = "calculate"
    /\ DoCalculateFinalGrades
    /\ main_pc' = "export"
    /\ UNCHANGED non_gc_vars

MainExport ==
    /\ main_pc = "export"
    /\ DoExportGrades
    /\ MainStep("summary")
    /\ UNCHANGED non_gc_vars

MainPrintSummary ==
    /\ main_pc = "summary"
    /\ DoPrintSummary
    /\ MainStep("done")
    /\ UNCHANGED non_gc_vars

----------------------------------------------------------------------------
(* Hidden Test Runner: records and helpers *)

\* a diagnostic: its text (or what produced it) and its length in characters
Message(text, length) == [text |-> text, length |-> length]

\* message[:n]
Truncated(message, n) ==
    [message EXCEPT !.length = IF message.length > n THEN n ELSE message.length]

\* "prefix" + message
Prefixed(prefix, prefix_length, message) ==
    [text |-> prefix, length |-> prefix_length + message.length]

\* the lengths of the texts the environment produces (stderr, str(e))
TextLengths == {40, 800}

TestResult(student_id, repo_path, tests_passed, tests_total, hidden_score, errors) ==
    [student_id |-> student_id,
     repo_path |-> repo_path,
     tests_passed |-> tests_passed,
     tests_total |-> tests_total,
     hidden_score |-> hidden_score,
     errors |-> errors]

\* a score as an exact fraction
Zero == [num |-> 0, den |-> 1]

extract_second_token(name) ==
    LET parts == split(name, "-")
    IN  IF Len(parts) >= 2 THEN parts[2] ELSE name

_extract_student_id(name) ==
    LET parts == split(name, "-")
    IN  IF Len(parts) >= 2 THEN parts[Len(parts)] ELSE name

\* str(submissions_path / name)
submissions_path == <<"s">>
repo_path_of(name) == submissions_path \o <<"/">> \o name

\* run_on_submission, the early return for a submission without src/
no_src_result(name) ==
    TestResult(_extract_student_id(name), repo_path_of(name), 0, 0, Zero,
               <<Message("No src/ directory found", 23)>>)

\* run_on_submission after the test run returned the dictionary `report`
run_result_unfloored(name, report) ==
    LET passed == report.summary.passed
        total == report.summary.total
        score == [num |-> passed * 100, den |-> total]
        errors == IF "error" \in DOMAIN report
                  THEN <<Truncated(report.error, 500)>> ELSE <<>>
    IN  TestResult(_extract_student_id(name), repo_path_of(name), passed, total, score, errors)

run_result(name, report) ==
    LET passed == report.summary.passed
        total == report.summary.total
        score == IF total > 0 THEN [num |-> passed * 100, den |-> total] ELSE Zero
        errors == IF "error" \in DOMAIN report
                  THEN <<Truncated(report.error, 500)>> ELSE <<>>
    IN  TestResult(_extract_student_id(name), repo_path_of(name), passed, total, score, errors)

\* run_on_submission, except Exception as e
failed_result(name, e) ==
    TestResult(_extract_student_id(name), repo_path_of(name), 0, 0, Zero,
               <<Prefixed("Test execution failed: ", 23, Truncated(e, 200))>>)

timeout_result_as_failure(name) ==
    failed_result(name, Message("Command timed out after 300 seconds", 35))

\* run_on_submission, except subprocess.TimeoutExpired
timeout_result(name) ==
    TestResult(_extract_student_id(name), repo_path_of(name), 0, 0, Zero,
               <<Message("Test execution timed out", 24)>>)

run_all_except_skips(rs, name, e) == rs

\* run_all, except Exception as e: the list of results with the record of the error
run_all_except(rs, name, e) ==
    Append(rs, TestResult(_extract_student_id(name), repo_path_of(name), 0, 0, Zero, <<e>>))

\* the dictionaries the test runs return
summary_report(passed, total) == [summary |-> [passed |-> passed, total |-> total]]

error_report_silent(e) == [summary |-> [passed |-> 0, total |-> 0]]

error_report(e) == [summary |-> [passed |-> 0, total |-> 0], error |-> e]

racket_missing == Message("Racket not installed - please install to run Scheme tests", 57)

prolog_missing == Message("SWI-Prolog not installed - please install to run Prolog tests", 61)

----------------------------------------------------------------------------
(* Hidden Test Runner: the submissions directory *)

Entry(name, is_dir, has_src, variant, has_requirements) ==
    [name |-> name, is_dir |-> is_dir, has_src |-> has_src, variant |-> variant,
     has_requirements |-> has_requirements]

labX_carol == <<"l", "a", "b", "X", "-">> \o carol
labX_dave == <<"l", "a", "b", "X", "-", "d", "a", "v", "e">>

\* what the submissions directory may hold: submissions with and without src/, with a
\* variant config that is absent, readable or not valid JSON, with and without
\* requirements.txt; a hidden directory; a plain file
EntryPool ==
    { Entry(labX_alice, TRUE, TRUE, "valid", TRUE),
      Entry(labX_bob, TRUE, TRUE, "none", FALSE),
      Entry(labX_carol, TRUE, FALSE, "none", FALSE),
      Entry(labX_dave, TRUE, TRUE, "invalid", FALSE),
      Entry(<<".", "g", "i", "t">>, TRUE, FALSE, "none", FALSE),
      Entry(<<"n", "o", "t", "e", "s">>, FALSE, FALSE, "none", FALSE) }

NoEntry == Entry(<<>>, FALSE, FALSE, "none", FALSE)

EntryNamed(name) == CHOOSE e \in submissions : e.name = name

\* the list comprehension of run_all: the directories whose name does not start with '.'
submission_dirs == {e \in submissions : e.is_dir /\ e.name[1] # "."}

----------------------------------------------------------------------------
(* Hidden Test Runner: main() of run_hidden_tests.py, one submission after the other *)

\* a hidden tests directory: whether it exists, and the suffixes of the files it holds
Corpus(exists, suffixes) == [exists |-> exists, suffixes |-> suffixes]

Corpora ==
    {Corpus(FALSE, {})}
    \cup {Corpus(TRUE, s) : s \in {{"py"}, {"rkt"}, {"pl"}, {"rkt", "pl"}, {}}}

_detect_language(corpus) ==
    IF "py" \in corpus.suffixes THEN "python"
    ELSE IF "rkt" \in corpus.suffixes THEN "racket"
    ELSE IF "pl" \in corpus.suffixes THEN "prolog"
    ELSE "python"

\* leaving `with tempfile.TemporaryDirectory()`: the directory of the submission is removed
cleanup_never(dirs, name) == dirs

cleanup(dirs, name) == dirs \ {name}

\* "; ".join(errors)
RECURSIVE join(_)
join(errors) ==
    IF errors = <<>> THEN [texts |-> <<>>, length |-> 0]
    ELSE IF Len(errors) = 1 THEN [texts |-> <<errors[1].text>>, length |-> errors[1].length]
    ELSE LET rest == join(Tail(errors))
         IN  [texts |-> <<errors[1].text>> \o rest.texts,
              length |-> errors[1].length + 2 + rest.length]

\* the row export_results writes for a record; the score in tenths, as "%.1f" prints it
result_row(r) ==
    [student_id |-> r.student_id,
     repository |-> r.repo_path,
     tests_passed |-> r.tests_passed,
     tests_total |-> r.tests_total,
     hidden_score |-> RoundHalfEven(r.hidden_score.num * Points(1), r.hidden_score.den),
     errors |-> join(r.errors)]

with_student_id(rs, student_id) == SelectSeq(rs, LAMBDA r : r.student_id = student_id)

\* sorted(results, key=lambda x: x.student_id): ascending, equal keys in their first order
RECURSIVE rows_in_order(_, _)
rows_in_order(rs, ids) ==
    IF ids = <<>> THEN <<>>
    ELSE LET same == with_student_id(rs, Head(ids))
         IN  [i \in 1..Len(same) |-> result_row(same[i])] \o rows_in_order(rs, Tail(ids))

export_results(rs) == rows_in_order(rs, sorted({rs[i].student_id : i \in 1..Len(rs)}))

HTRInit ==
    /\ hidden_tests \in Corpora
    /\ quiet \in BOOLEAN
    /\ language = ""
    /\ interpreter \in BOOLEAN
    /\ submissions \in SUBSET EntryPool
    /\ htr_pc = "start"
    /\ queue = <<>>
    /\ running = NoEntry
    /\ tmpdirs = {}
    /\ results = <<>>
    /\ events = <<>>
    /\ site_packages = {}
    /\ observed = <<>>
    /\ sandboxes = {}
    /\ exported = <<>>

HTRIdle ==
    /\ hidden_tests = Corpus(TRUE, {"py"})
    /\ quiet = FALSE
    /\ language = ""
    /\ interpreter = TRUE
    /\ submissions = {}
    /\ htr_pc = "idle"
    /\ queue = <<>>
    /\ running = NoEntry
    /\ tmpdirs = {}
    /\ results = <<>>
    /\ events = <<>>
    /\ site_packages = {}
    /\ observed = <<>>
    /\ sandboxes = {}
    /\ exported = <<>>

htr_env == <<hidden_tests, quiet, interpreter, submissions>>

construct_unchecked(corpus) == "constructed"

\* HiddenTestRunner.__init__: ValueError if the hidden tests directory does not exist
construct(corpus) == IF ~corpus.exists THEN "ValueError" ELSE "constructed"

\* HiddenTestRunner(...): ValueError, which main does not catch, if the hidden tests of the
\* assignment do not exist
Construct ==
    /\ htr_pc = "start"
    /\ htr_pc' = construct(hidden_tests)
    /\ language' = IF htr_pc' = "constructed" THEN _detect_language(hidden_tests)
                   ELSE language
    /\ UNCHANGED <<htr_env, queue, running, tmpdirs, results, events, site_packages,
                   observed, sandboxes, exported, non_htr_vars>>

\* run_all up to its loop: the submissions, sorted
RunAllBegin ==
    /\ htr_pc = "constructed"
    /\ queue' = LET order == sorted({e.name : e \in submission_dirs})
                IN  [i \in 1..Len(order) |-> EntryNamed(order[i])]
    /\ results' = <<>>
    /\ htr_pc' = "loop"
    /\ UNCHANGED <<htr_env, language, running, tmpdirs, events, site_packages, observed,
                   sandboxes, exported, non_htr_vars>>

\* the record of one submission is done, the `with` block (if entered) is left: on to the next
Finish(event, rs) ==
    /\ results' = rs
    /\ events' = events @@ (Head(queue).name :> event)
    /\ queue' = Tail(queue)
    /\ running' = NoEntry
    /\ tmpdirs' = cleanup(tmpdirs, Head(queue).name)
    /\ htr_pc' = "loop"
    /\ UNCHANGED <<htr_env, language, site_packages, observed, sandboxes, exported,
                   non_htr_vars>>

\* json.load of the variant config raises: run_on_submission propagates the exception
SubmissionConfigUnreadable ==
    /\ htr_pc = "loop" /\ queue # <<>>
    /\ Head(queue).variant = "invalid"
    /\ \E n \in TextLengths :
          Finish("config unreadable",
                 run_all_except(results, Head(queue).name, Message("JSONDecodeError", n)))

\* the variant config is loaded (or absent); the temporary directory is created
SubmissionBegin ==
    /\ htr_pc = "loop" /\ queue # <<>>
    /\ Head(queue).variant # "invalid"
    /\ running' = Head(queue)
    /\ tmpdirs' = tmpdirs \cup {Head(queue).name}
    /\ sandboxes' = sandboxes \cup {Head(queue).name}
    /\ observed' = observed @@ (Head(queue).name :> site_packages)
    /\ htr_pc' = "sandbox"
    /\ UNCHANGED <<htr_env, language, queue, results, events, site_packages, exported,
                   non_htr_vars>>

\* no src/: the early return, out of the temporary directory
SubmissionNoSrc ==
    /\ htr_pc = "sandbox"
    /\ ~running.has_src
    /\ Finish("no src", Append(results, no_src_result(running.name)))

\* shutil.copytree of src/ or of the hidden tests raises
SubmissionCopyFails ==
    /\ htr_pc = "sandbox"
    /\ running.has_src
    /\ \E n \in TextLengths :
          Finish("copy failed",
                 run_all_except(results, running.name, Message("shutil.Error", n)))

\* the sandbox is filled; pip install is started if there is a requirements.txt
SubmissionEnterSandbox ==
    /\ htr_pc = "sandbox"
    /\ running.has_src
    /\ htr_pc' = IF running.has_requirements THEN "pip" ELSE "tests"
    /\ UNCHANGED <<htr_env, language, queue, running, tmpdirs, results, events,
                   site_packages, observed, sandboxes, exported, non_htr_vars>>

\* pip install -r requirements.txt returns, having installed the packages in the
\* interpreter's environment or not (its exit status is not looked at)
PipReturns ==
    /\ htr_pc = "pip"
    /\ \E installed \in BOOLEAN :
          site_packages' = IF installed THEN site_packages \cup {running.name}
                           ELSE site_packages
    /\ htr_pc' = "tests"
    /\ UNCHANGED <<htr_env, language, queue, running, tmpdirs, results, events, observed,
                   sandboxes, exported, non_htr_vars>>

\* a test process runs: always for Python, for the others if the interpreter is found
ProcessRuns == language = "python" \/ interpreter

\* the test run returns its counts
TestsComplete ==
    /\ htr_pc = "tests" /\ ProcessRuns
    /\ \E total \in 0..MaxTests : \E passed \in 0..total :
          Finish("ran",
                 Append(results, run_result(running.name, summary_report(passed, total))))

\* pytest leaves no report file: the counts are 0 and stderr is the error
TestsNoReport ==
    /\ htr_pc = "tests" /\ language = "python"
    /\ \E n \in TextLengths :
          Finish("no report",
                 Append(results, run_result(running.name, error_report(Message("stderr", n)))))

\* raco or swipl is not installed
TestsInterpreterMissing ==
    /\ htr_pc = "tests" /\ language # "python" /\ ~interpreter
    /\ Finish("interpreter missing",
              Append(results,
                     run_result(running.name,
                                error_report(IF language = "racket" THEN racket_missing
                                             ELSE prolog_missing))))

\* the test process exceeds the timeout: subprocess.TimeoutExpired
TestsTimeout ==
    /\ htr_pc = "tests" /\ ProcessRuns
    /\ Finish("timeout", Append(results, timeout_result(running.name)))

\* the test run raises another exception
TestsRaise ==
    /\ htr_pc = "tests" /\ ProcessRuns
    /\ \E n \in TextLengths :
          Finish("raised", Append(results, failed_result(running.name, Message("str(e)", n))))

\* the loop is over: run_all returns the list
RunAllReturn ==
    /\ htr_pc = "loop" /\ queue = <<>>
    /\ htr_pc' = "returned"
    /\ UNCHANGED <<htr_env, language, queue, running, tmpdirs, results, events,
                   site_packages, observed, sandboxes, exported, non_htr_vars>>

\* main: runner.export_results(results, args.output)
ExportResults ==
    /\ htr_pc = "returned"
    /\ exported' = <<export_results(results)>>
    /\ htr_pc' = "exported"
    /\ UNCHANGED <<htr_env, language, queue, running, tmpdirs, results, events,
                   site_packages, observed, sandboxes, non_htr_vars>>

\* main: the summary, unless --quiet; the average divides by len(scores)
MainSummary ==
    /\ htr_pc = "exported"
    /\ htr_pc' = IF ~quiet /\ results = <<>> THEN "ZeroDivisionError" ELSE "done"
    /\ UNCHANGED <<htr_env, language, queue, running, tmpdirs, results, events,
                   site_packages, observed, sandboxes, exported, non_htr_vars>>

\* where main() of run_hidden_tests.py ends: returning, or on an exception nothing catches
HTREnded == htr_pc \in {"done", "ValueError", "ZeroDivisionError"}

\* the exit status of the process: 0 when main returns, 1 when an exception ends it
exit_status(pc) == IF pc = "done" THEN 0 ELSE 1

----------------------------------------------------------------------------
(* Visible-score extraction: export_grades of export_grades.py *)

\* the outcomes pytest reports for a test
Outcomes == {"passed", "failed", "skipped"}

\* sum(1 for t in tests if t.get('outcome') == 'passed')
count_passed(tests) == Len(SelectSeq(tests, LAMBDA t : t = "passed"))

max(a, b) == IF a >= b THEN a ELSE b

visible_score_unfloored(tests) ==
    [passed |-> count_passed(tests), total |-> Len(tests),
     score |-> [num |-> count_passed(tests) * 100, den |-> Len(tests)]]

\* the score export_grades computes from the tests of a student's JSON file
visible_score(tests) ==
    [passed |-> count_passed(tests), total |-> Len(tests),
     score |-> [num |-> count_passed(tests) * 100, den |-> max(Len(tests), 1)]]

\* round(score, 1), in tenths
visible_grade(tests) ==
    RoundHalfEven(visible_score(tests).score.num * Points(1), visible_score(tests).score.den)

----------------------------------------------------------------------------
(* Pipeline Orchestrator: run_full_pipeline of full_grading_pipeline.py *)

\* the scripts the steps look for in the scripts directory
ScriptNames ==
    {"clone_submissions.sh", "batch_grade.sh", "export_grades.py", "run_hidden_tests.py",
     "run_jplag.sh", "run_moss.sh", "grade_calculator.py"}

\* the output paths of one run (one course, one assignment, one timestamp)
VisibleFile == "grades/csc3301/labX-visible-T.csv"
HiddenFile == "grades/csc3301/labX-hidden-T.csv"
SimilarityFile == "plagiarism-reports/csc3301-labX-T/similarity_results.csv"
FinalFile == "grades/csc3301/labX-final-T.csv"
LmsFile == "grades/csc3301/labX-lms-T.csv"

StepNames ==
    <<"step1_clone_submissions", "step2_extract_visible_scores", "step3_run_hidden_tests",
      "step4_plagiarism_check", "step5_calculate_final_grades", "step6_export_for_lms">>

dot_git == <<".", "g", "i", "t">>

\* what the submissions directory of the pipeline may hold
PipelineEntries == {e \in EntryPool : e.name \in {labX_alice, labX_bob, dot_git}}

\* what the directory may hold before the run: repositories of an earlier run, other entries
EntriesBefore == {e \in PipelineEntries : e.name # labX_bob}

\* the repositories the Clone step may obtain
Cloneable == {e \in PipelineEntries : e.name # dot_git}

\* step1_clone_submissions: len(list(submissions_dir.iterdir())) > 0
step1_result(entries) == Cardinality(entries) > 0

final_grades_arguments_swapped(ret) ==
    <<ret["step3_run_hidden_tests"], ret["step2_extract_visible_scores"],
      ret["step4_plagiarism_check"]>>

\* run_full_pipeline: the arguments of step5_calculate_final_grades
final_grades_arguments(ret) ==
    <<ret["step2_extract_visible_scores"], ret["step3_run_hidden_tests"],
      ret["step4_plagiarism_check"]>>

\* run_full_pipeline: the argument of step6_export_for_lms
lms_arguments(ret) == <<ret["step5_calculate_final_grades"]>>

\* a step called, and whether it printed a warning
Logged(step, warning) == [step |-> step, warning |-> warning]

PipeInit ==
    /\ skip_clone \in BOOLEAN
    /\ scripts \in SUBSET ScriptNames
    /\ submissions_dir \in SUBSET EntriesBefore
    /\ pipe_pc = "start"
    /\ files = {}
    /\ stage_log = <<>>
    /\ returned = <<>>
    /\ received = <<>>

PipeIdle ==
    /\ skip_clone = FALSE
    /\ scripts = {}
    /\ submissions_dir = {}
    /\ pipe_pc = "idle"
    /\ files = {}
    /\ stage_log = <<>>
    /\ returned = <<>>
    /\ received = <<>>

pipe_env == <<skip_clone, scripts>>

\* a step was called with `arguments` and returned `path`
StepDone(step, warning, arguments, path) ==
    /\ stage_log' = Append(stage_log, Logged(step, warning))
    /\ received' = received @@ (step :> arguments)
    /\ returned' = returned @@ (step :> path)

\* run_full_pipeline up to its first step
PipelineBegin ==
    /\ pipe_pc = "start"
    /\ pipe_pc' = IF skip_clone THEN "visible" ELSE "clone"
    /\ UNCHANGED <<pipe_env, submissions_dir, files, stage_log, returned, received,
                   non_pipe_vars>>

\* Step 1: the clone script, or gh and git, obtain some repositories (their exit status
\* is not looked at); False, and the run ends, if the submissions directory is empty
Step1Clone ==
    /\ pipe_pc = "clone"
    /\ \E cloned \in SUBSET Cloneable :
          /\ submissions_dir' = submissions_dir \cup cloned
          /\ stage_log' = Append(stage_log, Logged("step1_clone_submissions", FALSE))
          /\ received' = received @@ ("step1_clone_submissions" :> <<>>)
          /\ pipe_pc' = IF step1_result(submissions_dir') THEN "visible" ELSE "aborted"
    /\ UNCHANGED <<pipe_env, files, returned, non_pipe_vars>>

\* Step 2: batch_grade.sh if present, then export_grades.py if present, which writes the
\* visible scores unless it fails
Step2ExtractVisible ==
    /\ pipe_pc = "visible"
    /\ \E written \in BOOLEAN :
          files' = IF "export_grades.py" \in scripts /\ written
                   THEN files \cup {VisibleFile} ELSE files
    /\ StepDone("step2_extract_visible_scores", FALSE, <<>>, VisibleFile)
    /\ pipe_pc' = "hidden"
    /\ UNCHANGED <<pipe_env, submissions_dir, non_pipe_vars>>

\* Step 3: run_hidden_tests.py if present, which writes the hidden scores unless it fails
\* (its exit status is not looked at); a warning if the script is absent
Step3RunHidden ==
    /\ pipe_pc = "hidden"
    /\ \E written \in BOOLEAN :
          files' = IF "run_hidden_tests.py" \in scripts /\ written
                   THEN files \cup {HiddenFile} ELSE files
    /\ StepDone("step3_run_hidden_tests", "run_hidden_tests.py" \notin scripts, <<>>,
                HiddenFile)
    /\ pipe_pc' = "plagiarism"
    /\ UNCHANGED <<pipe_env, submissions_dir, non_pipe_vars>>

\* Step 4: run_jplag.sh if present, else run_moss.sh if present; the report is written or not
Step4Plagiarism ==
    /\ pipe_pc = "plagiarism"
    /\ \E written \in BOOLEAN :
          files' = IF ("run_jplag.sh" \in scripts \/ "run_moss.sh" \in scripts) /\ written
                   THEN files \cup {SimilarityFile} ELSE files
    /\ StepDone("step4_plagiarism_check", FALSE, <<>>, SimilarityFile)
    /\ pipe_pc' = "final"
    /\ UNCHANGED <<pipe_env, submissions_dir, non_pipe_vars>>

\* Step 5: grade_calculator.py if present, on the sources that exist; it writes the final
\* grades unless it fails (its exit status is not looked at)
Step5CalculateFinal ==
    /\ pipe_pc = "final"
    /\ \E written \in BOOLEAN :
          files' = IF "grade_calculator.py" \in scripts /\ command_writes_output(written)
                   THEN files \cup {FinalFile} ELSE files
    /\ StepDone("step5_calculate_final_grades", FALSE, final_grades_arguments(returned),
                FinalFile)
    /\ pipe_pc' = "lms"
    /\ UNCHANGED <<pipe_env, submissions_dir, non_pipe_vars>>

\* Step 6: the LMS file is written if the grades file exists; then the summary
Step6ExportLms ==
    /\ pipe_pc = "lms"
    /\ LET grades_file == lms_arguments(returned)[1]
       IN  files' = IF grades_file \in files THEN files \cup {LmsFile} ELSE files
    /\ StepDone("step6_export_for_lms", FALSE, lms_arguments(returned), LmsFile)
    /\ pipe_pc' = "complete"
    /\ UNCHANGED <<pipe_env, submissions_dir, non_pipe_vars>>

----------------------------------------------------------------------------
(* The pure functions, called on inputs of the environment's choice *)

UnitIdle ==
    /\ penalty_evals = <<>> /\ letter_eval = <<>> /\ score_evals = {} /\ extract_eval = <<>>
    /\ clock = 0 /\ runs = <<>> /\ inject_eval = <<>>

GCIdle == GCInit /\ weights = init_weights(<<>>) /\ main_pc = "idle" /\ pool = "none"

Similarities == {Points(s) : s \in 0..MaxSimilarity}

CallPenalty ==
    /\ Cardinality(DOMAIN penalty_evals) < MaxPenaltyEvals
    /\ \E similarity \in Similarities \ DOMAIN penalty_evals :
           penalty_evals' =
               penalty_evals @@ (similarity :> _calculate_plagiarism_penalty(similarity))
    /\ UNCHANGED <<letter_eval, score_evals, extract_eval, clock, runs, inject_eval,
                   gc_vars, htr_vars, pipe_vars>>

\* final scores in tenths of a point, as 1/FinalUnit
FinalScores == {f * (FinalUnit \div Points(1)) : f \in (0 - NegFinalTenths)..MaxFinalTenths}

CallLetterGrade ==
    /\ letter_eval = <<>>
    /\ \E score \in FinalScores : letter_eval' = <<score, _get_letter_grade(score)>>
    /\ UNCHANGED <<penalty_evals, score_evals, extract_eval, clock, runs, inject_eval,
                   gc_vars, htr_vars, pipe_vars>>

\* the records run_on_submission and run_all build, on every ending of a submission
HiddenOutcomes ==
    {run_result(labX_alice, summary_report(passed, total)) :
        passed \in 0..MaxTests, total \in 0..MaxTests}
    \cup {run_result(labX_alice, error_report(Message("stderr", n))) : n \in TextLengths}
    \cup {timeout_result(labX_alice), no_src_result(labX_alice)}
    \cup {failed_result(labX_alice, Message("str(e)", n)) : n \in TextLengths}
    \cup {run_all_except(<<>>, labX_alice, Message("str(e)", n))[1] : n \in TextLengths}

\* a score computed: by whom, from which counts
Scored(source, passed, total, score) ==
    [source |-> source, passed |-> passed, total |-> total, score |-> score]

CallHiddenScore ==
    /\ Cardinality(score_evals) < MaxScoreEvals
    /\ \E r \in {o \in HiddenOutcomes : o.tests_passed <= o.tests_total} :
          score_evals' = score_evals \cup
              {Scored("run_on_submission", r.tests_passed, r.tests_total, r.hidden_score)}
    /\ UNCHANGED <<penalty_evals, letter_eval, extract_eval, clock, runs, inject_eval,
                   gc_vars, htr_vars, pipe_vars>>

CallVisibleScore ==
    /\ Cardinality(score_evals) < MaxScoreEvals
    /\ \E tests \in SeqsUpTo(Outcomes, MaxTests) :
          LET v == visible_score(tests)
          IN  score_evals' = score_evals \cup
                  {Scored("export_grades", v.passed, v.total, v.score)}
    /\ UNCHANGED <<penalty_evals, letter_eval, extract_eval, clock, runs, inject_eval,
                   gc_vars, htr_vars, pipe_vars>>

\* repository names: texts of letters and hyphens
Names == SeqsUpTo({"a", "b", "-"}, MaxNameLen)

\* both extractions applied to a name, and the runner's applied to its own result
CallExtract ==
    /\ extract_eval = <<>>
    /\ \E name \in Names :
          extract_eval' = <<[name |-> name,
                             runner |-> _extract_student_id(name),
                             again |-> _extract_student_id(_extract_student_id(name)),
                             calculator |-> plagiarism_student_id(name)]>>
    /\ UNCHANGED <<penalty_evals, letter_eval, score_evals, clock, runs, inject_eval,
                   gc_vars, htr_vars, pipe_vars>>

----------------------------------------------------------------------------
(* PipelineConfig: the timestamp of a run and the output paths built from it *)

SecondsPerMinute == 60

\* datetime.now().strftime("%Y-%m-%d_%H-%M"): the date, the hour and the minute
\* of the clock; the seconds are not part of the text
strftime(now) == now \div SecondsPerMinute

\* PipelineConfig.__post_init__, for a run started when the clock reads now
PipelineConfig(course_id, assignment_id, now) ==
    [course_id |-> course_id, assignment_id |-> assignment_id, timestamp |-> strftime(now)]

\* a path is the tuple of the parts its name is built from
grades_path(config, kind) ==
    <<"grades", config.course_id, config.assignment_id, kind, config.timestamp, ".csv">>

reports_dir(config) ==
    <<"plagiarism-reports", config.course_id, config.assignment_id, config.timestamp>>

\* the output_file of step2, step3, step4, step5 and step6
output_paths(config) ==
    [visible |-> grades_path(config, "visible"),
     hidden |-> grades_path(config, "hidden"),
     plagiarism |-> Append(reports_dir(config), "similarity_results.csv"),
     final |-> grades_path(config, "final"),
     lms |-> grades_path(config, "lms")]

Assignments == {"lab01", "lab02"}

\* a second passes
Tick ==
    /\ clock < MaxClock
    /\ clock' = clock + 1
    /\ UNCHANGED <<penalty_evals, letter_eval, score_evals, extract_eval, runs, inject_eval,
                   gc_vars, htr_vars, pipe_vars>>

\* main() of full_grading_pipeline.py builds the PipelineConfig of a new run
StartRun ==
    /\ Len(runs) < MaxRuns
    /\ \E assignment_id \in Assignments :
          runs' = Append(runs, PipelineConfig("csc3301", assignment_id, clock))
    /\ UNCHANGED <<penalty_evals, letter_eval, score_evals, extract_eval, clock, inject_eval,
                   gc_vars, htr_vars, pipe_vars>>

----------------------------------------------------------------------------
(* Standalone test runners: the customization of a test template *)

StartsWith(text, prefix) ==
    Len(text) >= Len(prefix) /\ SubSeq(text, 1, Len(prefix)) = prefix

ContainsText(text, part) ==
    \E i \in 1..(Len(text) + 1) : StartsWith(SubSeq(text, i, Len(text)), part)

RECURSIVE replace_first_from(_, _, _, _)
replace_first_from(text, old, new, done) ==
    IF text = <<>> THEN <<>>
    ELSE IF ~done /\ StartsWith(text, old)
    THEN new \o replace_first_from(SubSeq(text, Len(old) + 1, Len(text)), old, new, TRUE)
    ELSE <<Head(text)>> \o replace_first_from(Tail(text), old, new, done)

replace_first(text, old, new) == replace_first_from(text, old, new, FALSE)

\* str.replace(old, new): every occurrence of old, found from the left and not
\* overlapping, becomes new; what was put in is not looked at again
RECURSIVE replace(_, _, _)
replace(text, old, new) ==
    IF text = <<>> THEN <<>>
    ELSE IF StartsWith(text, old)
    THEN new \o replace(SubSeq(text, Len(old) + 1, Len(text)), old, new)
    ELSE <<Head(text)>> \o replace(Tail(text), old, new)

DigitChars == <<"0", "1", "2", "3", "4", "5", "6", "7", "8", "9">>

\* the decimal text of a natural number
RECURSIVE decimal(_)
decimal(n) ==
    IF n < 10 THEN <<DigitChars[n + 1]>>
    ELSE decimal(n \div 10) \o <<DigitChars[(n % 10) + 1]>>

\* a value of the variant config: a text, or a number
StrValue(text) == [type |-> "str", text |-> text, number |-> 0]
IntValue(n) == [type |-> "int", text |-> <<>>, number |-> n]

\* value if isinstance(value, str) else str(value)
stringified(value) == IF value.type = "str" THEN value.text ELSE decimal(value.number)

\* f"${{{key}}}"
placeholder(key) == <<"$", "{">> \o key \o <<"}">>

UpTwo == <<".", ".", "/", ".", ".", "/">>
PrologLoad == <<"[", "'">>
RacketRequire == <<"(", "r", "e", "q", "u", "i", "r", "e", " ", "\"">>

\* the two replacements that make the load (or require) paths local
rewrite_paths(text, lang) ==
    IF lang = "prolog"
    THEN replace(replace(text, PrologLoad \o UpTwo \o <<"s", "r", "c", "/">>, PrologLoad),
                 PrologLoad \o UpTwo \o <<".", ".", "/">>, PrologLoad)
    ELSE replace(replace(text, RacketRequire \o UpTwo \o <<"s", "r", "c", "/">>,
                         RacketRequire \o <<".", "/">>),
                 RacketRequire \o UpTwo \o <<".", ".", "/">>, RacketRequire \o <<".", "/">>)

\* for key, value in variant_config.items(): one replace after the other, each on
\* the text the one before left
RECURSIVE inject(_, _)
inject(text, items) ==
    IF items = <<>> THEN text
    ELSE inject(replace(text, placeholder(Head(items).key), stringified(Head(items).value)),
                Tail(items))

\* `if variant_config:` is false of None and of the empty dict
customized(template, variant_config, lang) ==
    LET test_content == rewrite_paths(template, lang)
    IN  IF ~variant_config.given \/ variant_config.items = <<>> THEN test_content
        ELSE inject(test_content, variant_config.items)

(* The templates and configs tried *)

Item(key, value) == [key |-> key, value |-> value]

\* variant_config: None, or a dict
NoConfig == [given |-> FALSE, items |-> <<>>]
Dict(items) == [given |-> TRUE, items |-> items]

ConfigKeys == {<<"a">>, <<"b">>}

\* plain values, and values that hold a placeholder themselves
PlainValues == {StrValue(<<>>), StrValue(<<"x">>), IntValue(12)}
ConfigValues == PlainValues \cup {StrValue(placeholder(<<"a">>))}

\* a dict: keys are distinct, and items() gives them in the order of insertion
DistinctKeys(items) == \A i, j \in DOMAIN items : items[i].key = items[j].key => i = j

VariantConfigs ==
    {NoConfig, Dict(<<>>)}
    \cup {Dict(<<Item(k, v)>>) : k \in ConfigKeys, v \in ConfigValues}
    \cup {Dict(<<Item(k1, v1), Item(k2, v2)>>) :
             k1 \in ConfigKeys, k2 \in ConfigKeys, v1 \in ConfigValues,
             v2 \in ConfigValues}

\* the pieces of a well-formed template: placeholders, paths to rewrite, other text
PlaceholderChunks == {placeholder(k) : k \in ConfigKeys \cup {<<"c">>}}

PathChunks ==
    {PrologLoad \o UpTwo \o <<"s", "r", "c", "/">>, PrologLoad \o UpTwo \o <<".", ".", "/">>,
     RacketRequire \o UpTwo \o <<"s", "r", "c", "/">>}

PlainChunks == {<<"x">>}

\* pieces that put the characters of a placeholder elsewhere
StrayChunks == {<<"$">>, <<"{", "a", "}">>}

Chunks == PlaceholderChunks \cup PathChunks \cup PlainChunks \cup StrayChunks

RECURSIVE Flatten(_)
Flatten(chunks) == IF chunks = <<>> THEN <<>> ELSE Head(chunks) \o Flatten(Tail(chunks))

\* a template is customized: what went in and what came out
CallCustomize ==
    /\ inject_eval = <<>>
    /\ \E chunks \in SeqsUpTo(Chunks, MaxChunks),
          config \in {c \in VariantConfigs : DistinctKeys(c.items)},
          lang \in {"prolog", "racket"} :
          inject_eval' = <<[chunks |-> chunks,
                            template |-> Flatten(chunks),
                            config |-> config,
                            language |-> lang,
                            customized |-> customized(Flatten(chunks), config, lang)]>>
    /\ UNCHANGED <<penalty_evals, letter_eval, score_evals, extract_eval, clock, runs,
                   gc_vars, htr_vars, pipe_vars>>

----------------------------------------------------------------------------
(* The hidden scores of a batch, from the runner to the calculator *)

labX_a_bob == <<"l", "a", "b", "X", "-", "a", "-">> \o bob

\* submissions of students alice, bob and a-bob (a GitHub username may hold hyphens)
BatchPool ==
    { Entry(labX_alice, TRUE, TRUE, "none", FALSE),
      Entry(labX_bob, TRUE, TRUE, "none", FALSE),
      Entry(labX_a_bob, TRUE, TRUE, "none", FALSE) }

\* f"{score:.1f}" of a score in tenths
score_text(tenths) == decimal(tenths \div 10) \o <<".">> \o decimal(tenths % 10)

\* the line csv.writer writes for a row of export_results, as csv.DictReader reads it
csv_row(row) ==
    ("Student ID" :> row.student_id) @@ ("Repository" :> row.repository)
        @@ ("Tests Passed" :> decimal(row.tests_passed))
        @@ ("Tests Total" :> decimal(row.tests_total))
        @@ ("Hidden Score" :> score_text(row.hidden_score))

hidden_scores_file(rows) == [i \in 1..Len(rows) |-> csv_row(rows[i])]

\* load_hidden_scores on the file export_results of the runner wrote
LoadExportedHidden ==
    /\ htr_pc \in {"exported", "done", "ZeroDivisionError"}
    /\ main_pc = "api" /\ raised = "" /\ ~Called("load_hidden_scores")
    /\ DoLoadHidden(hidden_scores_file(exported[1]))
    /\ UNCHANGED <<main_pc, non_gc_vars>>

----------------------------------------------------------------------------
(* Specifications *)

\* the calls main() of grade_calculator.py makes on the calculator once the arguments
\* are parsed, on well-formed files
Init == UnitIdle /\ HTRIdle /\ PipeIdle /\ GCInit /\ main_pc = "visible" /\ pool = "grading"

Next ==
    \/ MainLoadVisible
    \/ MainLoadHidden
    \/ MainLoadPlagiarism
    \/ MainCalculate
    \/ MainExport
    \/ MainPrintSummary

Spec == Init /\ [][Next]_vars

\* the three loads called in any order
InitMerge == UnitIdle /\ HTRIdle /\ PipeIdle /\ GCInit /\ main_pc = "api" /\ pool = "merge"

NextMerge == LoadVisible \/ LoadHidden \/ LoadPlagiarism

SpecMerge == InitMerge /\ [][NextMerge]_vars

\* _calculate_plagiarism_penalty alone
InitPenalty == UnitIdle /\ HTRIdle /\ PipeIdle /\ GCIdle

NextPenalty == CallPenalty

SpecPenalty == InitPenalty /\ [][NextPenalty]_vars

\* _get_letter_grade alone
InitLetterGrade == UnitIdle /\ HTRIdle /\ PipeIdle /\ GCIdle

NextLetterGrade == CallLetterGrade

SpecLetterGrade == InitLetterGrade /\ [][NextLetterGrade]_vars

\* main() of run_hidden_tests.py
InitRunner == UnitIdle /\ GCIdle /\ PipeIdle /\ HTRInit

NextRunner ==
    \/ Construct
    \/ RunAllBegin
    \/ SubmissionConfigUnreadable
    \/ SubmissionBegin
    \/ SubmissionNoSrc
    \/ SubmissionCopyFails
    \/ SubmissionEnterSandbox
    \/ PipReturns
    \/ TestsComplete
    \/ TestsNoReport
    \/ TestsInterpreterMissing
    \/ TestsTimeout
    \/ TestsRaise
    \/ RunAllReturn
    \/ ExportResults
    \/ MainSummary

SpecRunner == InitRunner /\ [][NextRunner]_vars

\* the steps the runner takes by itself, the expiry of the timeout given to
\* subprocess.run among them; the other steps wait for an external process to end
RunnerSteps ==
    \/ Construct
    \/ RunAllBegin
    \/ SubmissionConfigUnreadable
    \/ SubmissionBegin
    \/ SubmissionNoSrc
    \/ SubmissionCopyFails
    \/ SubmissionEnterSandbox
    \/ TestsInterpreterMissing
    \/ TestsTimeout
    \/ RunAllReturn
    \/ ExportResults
    \/ MainSummary

\* main() of run_hidden_tests.py on a batch of one submission, when no external
\* process need ever end by itself
InitRunnerTimed == InitRunner /\ Cardinality(submissions) = 1

SpecRunnerTimed == InitRunnerTimed /\ [][NextRunner]_vars /\ WF_vars(RunnerSteps)

\* the score computations of run_hidden_tests.py and of export_grades.py alone
InitScores == UnitIdle /\ HTRIdle /\ PipeIdle /\ GCIdle

NextScores == CallHiddenScore \/ CallVisibleScore

SpecScores == InitScores /\ [][NextScores]_vars

\* the two student-id extractions alone
InitExtract == UnitIdle /\ HTRIdle /\ PipeIdle /\ GCIdle

NextExtract == CallExtract

SpecExtract == InitExtract /\ [][NextExtract]_vars

\* run_full_pipeline of full_grading_pipeline.py
InitPipeline == UnitIdle /\ HTRIdle /\ GCIdle /\ PipeInit

NextPipeline ==
    \/ PipelineBegin
    \/ Step1Clone
    \/ Step2ExtractVisible
    \/ Step3RunHidden
    \/ Step4Plagiarism
    \/ Step5CalculateFinal
    \/ Step6ExportLms

SpecPipeline == InitPipeline /\ [][NextPipeline]_vars

\* the pipeline started again and again while the clock runs
InitReruns == UnitIdle /\ HTRIdle /\ GCIdle /\ PipeIdle

NextReruns == Tick \/ StartRun

SpecReruns == InitReruns /\ [][NextReruns]_vars

\* the customization of a test template by run_prolog_tests and run_scheme_tests alone
InitInject == UnitIdle /\ HTRIdle /\ GCIdle /\ PipeIdle

NextInject == CallCustomize

SpecInject == InitInject /\ [][NextInject]_vars

\* a batch of a Python assignment run and exported by run_hidden_tests.py, and the
\* exported file loaded by the calculator
InitBatch ==
    /\ UnitIdle /\ PipeIdle
    /\ GCInit /\ weights = init_weights(<<>>) /\ main_pc = "api" /\ pool = "none"
    /\ hidden_tests = Corpus(TRUE, {"py"})
    /\ quiet \in BOOLEAN
    /\ interpreter = TRUE
    /\ submissions \in SUBSET BatchPool
    /\ language = "" /\ htr_pc = "start" /\ queue = <<>> /\ running = NoEntry
    /\ tmpdirs = {} /\ results = <<>> /\ events = <<>> /\ site_packages = {}
    /\ observed = <<>> /\ sandboxes = {} /\ exported = <<>>

NextBatch ==
    \/ Construct
    \/ RunAllBegin
    \/ SubmissionBegin
    \/ SubmissionCopyFails
    \/ SubmissionEnterSandbox
    \/ TestsComplete
    \/ TestsNoReport
    \/ TestsTimeout
    \/ TestsRaise
    \/ RunAllReturn
    \/ ExportResults
    \/ MainSummary
    \/ LoadExportedHidden

SpecBatch == InitBatch /\ [][NextBatch]_vars

\* the calculator called on well-formed files: the loads in any order, then
\* calculate_final_grades and export_grades
InitOrder == UnitIdle /\ HTRIdle /\ PipeIdle /\ GCInit /\ main_pc = "api" /\ pool = "merge"

NextOrder == LoadVisible \/ LoadHidden \/ LoadPlagiarism \/ Calculate \/ Export

SpecOrder == InitOrder /\ [][NextOrder]_vars

\* the calculator on score sources that are missing or not well formed
InitMalformed ==
    UnitIdle /\ HTRIdle /\ PipeIdle /\ GCInit /\ main_pc = "api" /\ pool = "malformed"

NextMalformed == LoadVisible \/ LoadHidden \/ LoadPlagiarism \/ Calculate \/ Export

SpecMalformed == InitMalformed /\ [][NextMalformed]_vars

----------------------------------------------------------------------------
(* What the claims speak of, stated apart from the operators that model the code *)

\* the penalty the specification gives a similarity (tenths), times PenaltyUnit
StatedPenalty(s) ==
    IF s < Points(50) THEN 0
    ELSE IF s >= Points(80) THEN PenaltyUnit \div 2
    ELSE ((s - Points(50)) * PenaltyUnit) \div (2 * (Points(80) - Points(50)))

\* visible*w_v + hidden*w_h + quality*w_q, in 1/(Points(1) * WeightUnit) of a point
StatedBase(r) ==
    r.visible_score * weights.visible_tests + r.hidden_score * weights.hidden_tests
    + r.code_quality_score * weights.code_quality

HasComment(r, kind) == \E i \in 1..Len(r.comments) : r.comments[i].kind = kind

\* the text after the last hyphen of a name, the name itself if it has none
LastToken(name) ==
    LET hyphens == {i \in 1..Len(name) : name[i] = "-"}
    IN  IF hyphens = {} THEN name
        ELSE SubSeq(name, (CHOOSE i \in hyphens : \A j \in hyphens : j <= i) + 1, Len(name))

RowsOf(file) == IF file \in {NotRead, NoFile} THEN {} ELSE Range(file)

\* the students a score file names
Named(file) ==
    {row[c] : <<row, c>> \in
        {rc \in RowsOf(file) \X {"identifier", "student_id", "Student ID"} : rc[2] \in DOMAIN rc[1]}}

\* the students a plagiarism report names, as either participant
NamedInReport(file) ==
    {LastToken(row[c]) : <<row, c>> \in RowsOf(file) \X {"submission1", "submission2"}}

\* the positions of the rows of the report that name a student
RowsNaming(student) ==
    IF plagiarism_csv \in {NotRead, NoFile} THEN {}
    ELSE {i \in 1..Len(plagiarism_csv) :
             student \in {LastToken(plagiarism_csv[i]["submission1"]),
                          LastToken(plagiarism_csv[i]["submission2"])}}

SimilarityOf(i) == float(plagiarism_csv[i]["similarity"]).value

\* the other participant of row i, for a student the row names
OtherParticipants(i, student) ==
    {plagiarism_csv[i][c[2]] : c \in
        {c \in {<<"submission1", "submission2">>, <<"submission2", "submission1">>} :
            LastToken(plagiarism_csv[i][c[1]]) = student}}

MaxSimilarityOf(student) ==
    CHOOSE m \in {SimilarityOf(i) : i \in RowsNaming(student)} :
        \A i \in RowsNaming(student) : SimilarityOf(i) <= m

----------------------------------------------------------------------------
(* C1..C8: the Grade Calculator *)

\* C1: for every similarity s in 0..100 the penalty is 0 below 50, 0.5 from 80 on,
\* (s-50)/(80-50)*0.5 in between, and a larger similarity never has a smaller penalty
C1_PenaltyPiecewiseMonotone ==
    /\ \A s \in DOMAIN penalty_evals :
          LET p == penalty_evals[s]
          IN  /\ s < Points(50) => p = 0
              /\ s >= Points(80) => 2 * p = PenaltyUnit
              /\ (Points(50) <= s /\ s < Points(80)) =>
                     p * 2 * (Points(80) - Points(50)) = (s - Points(50)) * PenaltyUnit
    /\ \A s1, s2 \in DOMAIN penalty_evals :
          s1 <= s2 => penalty_evals[s1] <= penalty_evals[s2]

\* the penalty has been computed on the ramp and at the severe threshold
C1_Witness ==
    /\ DOMAIN penalty_evals = {Points(65), Points(80)}
    /\ 4 * penalty_evals[Points(65)] = PenaltyUnit
    /\ 2 * penalty_evals[Points(80)] = PenaltyUnit

TwelveGrades == {"A+", "A", "A-", "B+", "B", "B-", "C+", "C", "C-", "D+", "D", "F"}

\* C2: the letter grade of a final score is the grade of the highest boundary at or
\* below it (90.0 -> A+, 89.9 -> A, 49.9 -> D+), and always one of the twelve grades
C2_LetterGradeHighestBoundary ==
    letter_eval # <<>> =>
        LET f == letter_eval[1]
            grade == letter_eval[2]
            tenth == FinalUnit \div Points(1)
            met == {i \in 1..Len(GRADE_BOUNDARIES) : GRADE_BOUNDARIES[i][1] * FinalUnit <= f}
        IN  /\ grade \in TwelveGrades
            /\ \A i \in met :
                  (\A j \in met : GRADE_BOUNDARIES[j][1] <= GRADE_BOUNDARIES[i][1])
                      => grade = GRADE_BOUNDARIES[i][2]
            /\ f = 900 * tenth => grade = "A+"
            /\ f = 899 * tenth => grade = "A"
            /\ f = 499 * tenth => grade = "D+"

\* a score exactly on the boundary 90.0 has been graded A+
C2_Witness == letter_eval = <<90 * FinalUnit, "A+">>

\* C3: after calculate_final_grades every record has final_score = base*(1-penalty) when
\* the penalty is positive and base otherwise, and carries a "Plagiarism penalty" comment
\* exactly when the penalty is positive (not at a similarity of exactly 50)
C3_FinalScoreAndPenaltyComment ==
    Called("calculate_final_grades") =>
        \A k \in DOMAIN grades :
            LET r == grades[k]
                penalty == StatedPenalty(r.plagiarism_similarity)
            IN  /\ r.final_score = IF penalty > 0
                                    THEN StatedBase(r) * (PenaltyUnit - penalty)
                                    ELSE StatedBase(r) * PenaltyUnit
                /\ HasComment(r, "Plagiarism penalty") <=> penalty > 0
                /\ r.plagiarism_similarity = Points(50)
                       => ~HasComment(r, "Plagiarism penalty")

\* graded: one record at a similarity of exactly 50 without the comment, one penalised
C3_Witness ==
    /\ Called("calculate_final_grades")
    /\ \E k \in DOMAIN grades :
          /\ grades[k].plagiarism_similarity = Points(50)
          /\ ~HasComment(grades[k], "Plagiarism penalty")
    /\ \E k \in DOMAIN grades :
          /\ grades[k].plagiarism_similarity = Points(65)
          /\ HasComment(grades[k], "Plagiarism penalty")
          /\ grades[k].final_score < StatedBase(grades[k]) * PenaltyUnit

\* C4: a record with 40 <= similarity < 50 is flagged and given a warning comment but
\* keeps final_score = base; below 40 it gets neither the flag nor any comment
C4_WarningDoesNotPenalise ==
    Called("calculate_final_grades") =>
        \A k \in DOMAIN grades :
            LET r == grades[k]
                s == r.plagiarism_similarity
            IN  /\ (Points(40) <= s /\ s < Points(50)) =>
                      /\ r.plagiarism_flag
                      /\ HasComment(r, "Plagiarism warning")
                      /\ r.final_score = StatedBase(r) * PenaltyUnit
                /\ s < Points(40) => (~r.plagiarism_flag /\ r.comments = <<>>)

\* graded: one record at a similarity of exactly 40, flagged, and one just below 40
C4_Witness ==
    /\ Called("calculate_final_grades")
    /\ \E k \in DOMAIN grades :
          /\ grades[k].plagiarism_similarity = Points(40)
          /\ grades[k].plagiarism_flag
          /\ grades[k].final_score = StatedBase(grades[k]) * PenaltyUnit
          /\ grades[k].final_score > 0
    /\ \E k \in DOMAIN grades :
          /\ grades[k].plagiarism_similarity = Points(40) - 1
          /\ ~grades[k].plagiarism_flag

\* C5: after load_visible_scores and load_hidden_scores, in either order, every student
\* named in one of the two files has exactly one record; one named only in the hidden
\* file has visible_score 0, one named only in the visible file has hidden_score 0
C5_MergeIsUnion ==
    (Called("load_visible_scores") /\ Called("load_hidden_scores")) =>
        \A student \in Named(visible_csv) \cup Named(hidden_csv) :
            /\ Cardinality({k \in DOMAIN grades : grades[k].student_id = student}) = 1
            /\ student \in DOMAIN grades
            /\ student \notin Named(visible_csv) => grades[student].visible_score = 0
            /\ student \notin Named(hidden_csv) => grades[student].hidden_score = 0

\* hidden loaded before visible: bob only in the hidden file, alice only in the visible
C5_Witness ==
    /\ Len(calls) >= 2
    /\ calls[1] = "load_hidden_scores"
    /\ calls[2] = "load_visible_scores"
    /\ Named(hidden_csv) = {bob}
    /\ Named(visible_csv) = {alice}
    /\ grades[bob].visible_score = 0 /\ grades[bob].hidden_score > 0
    /\ grades[alice].hidden_score = 0 /\ grades[alice].visible_score > 0

AllLoaded ==
    /\ Called("load_visible_scores")
    /\ Called("load_hidden_scores")
    /\ Called("load_plagiarism_results")

\* C6 as stated: after the three loads the keys of the merge table are the students
\* named in any of the three sources, those named only in the plagiarism report included
C6_KeysAreUnionOfThreeSources ==
    AllLoaded =>
        DOMAIN grades =
            Named(visible_csv) \cup Named(hidden_csv) \cup NamedInReport(plagiarism_csv)

\* C6 as amended: the keys are the students named in the visible or the hidden file; a
\* student named only in the plagiarism report gets no record
C6_KeysAreUnionOfScoreSources ==
    AllLoaded => DOMAIN grades = Named(visible_csv) \cup Named(hidden_csv)

\* the three sources loaded, the report last, carol named in the report alone
C6_Witness ==
    /\ AllLoaded
    /\ calls[3] = "load_plagiarism_results"
    /\ carol \in NamedInReport(plagiarism_csv)
    /\ carol \notin DOMAIN grades
    /\ DOMAIN grades = {alice, bob}

\* C7 as stated: after load_plagiarism_results every student that was in the table has
\* the maximum similarity of the rows naming him, and as partner the other participant
\* of a row attaining it
C7_MaxSimilarityAndPartner ==
    Called("load_plagiarism_results") =>
        \A student \in known_at_plagiarism :
            RowsNaming(student) # {} =>
                /\ grades[student].plagiarism_similarity = MaxSimilarityOf(student)
                /\ \E i \in RowsNaming(student) :
                      /\ SimilarityOf(i) = MaxSimilarityOf(student)
                      /\ grades[student].plagiarism_partner \in OtherParticipants(i, student)

\* C7 as amended: the similarity is that maximum; when the maximum is above 0 the partner
\* is the other participant of the first row attaining it, and when it is 0 the partner
\* stays empty
C7_MaxSimilarityAndPartnerIfPositive ==
    Called("load_plagiarism_results") =>
        \A student \in known_at_plagiarism :
            RowsNaming(student) # {} =>
                /\ grades[student].plagiarism_similarity = MaxSimilarityOf(student)
                /\ MaxSimilarityOf(student) = 0 => grades[student].plagiarism_partner = <<>>
                /\ MaxSimilarityOf(student) > 0 =>
                      \E i \in RowsNaming(student) :
                          /\ SimilarityOf(i) = MaxSimilarityOf(student)
                          /\ \A j \in RowsNaming(student) :
                                SimilarityOf(j) = MaxSimilarityOf(student) => i <= j
                          /\ grades[student].plagiarism_partner
                                 \in OtherParticipants(i, student)

\* a report of two rows naming alice, the higher similarity first: the first is kept
C7_Witness ==
    /\ Called("load_plagiarism_results")
    /\ alice \in known_at_plagiarism
    /\ Len(plagiarism_csv) = 2
    /\ RowsNaming(alice) = {1, 2}
    /\ SimilarityOf(1) = Points(85) /\ SimilarityOf(2) = Points(45)
    /\ grades[alice].plagiarism_similarity = Points(85)
    /\ grades[alice].plagiarism_partner = labX_bob

\* the files of the end-to-end example
ExampleFiles ==
    /\ weights = DEFAULT_WEIGHTS
    /\ RowsOf(visible_csv) = {("identifier" :> alice) @@ ("grade" :> <<"1", "0", "0">>),
                              ("identifier" :> bob) @@ ("grade" :> <<"1", "0", "0">>)}
    /\ RowsOf(hidden_csv) = HiddenRows
    /\ RowsOf(plagiarism_csv) = {PlagiarismRow(labX_alice, labX_bob, <<"8", "5">>)}

\* C8: with the default weights, hidden scores 80 (labX-alice) and 30 (labX-bob), visible
\* and quality 100 and one row pairing labX-alice with labX-bob at 85, alice has base 84,
\* penalty 0.5, final score 42 and grade "D", and both alice and bob are flagged
C8_EndToEndExample ==
    (ExampleFiles /\ Called("calculate_final_grades")) =>
        /\ DOMAIN grades = {alice, bob}
        /\ StatedBase(grades[alice]) = 84 * Points(1) * WeightUnit
        /\ \E i \in 1..Len(grades[alice].comments) :
              grades[alice].comments[i] = [kind |-> "Plagiarism penalty", percent |-> 50]
        /\ grades[alice].final_score = 42 * FinalUnit
        /\ grades[alice].letter_grade = "D"
        /\ grades[alice].plagiarism_flag
        /\ grades[bob].plagiarism_flag

\* the example has been loaded, graded and exported
C8_Witness ==
    /\ ExampleFiles
    /\ main_pc = "summary"
    /\ Len(output) = 2
    /\ output[1].student_id = alice /\ output[1].final_score = Points(42)
    /\ output[1].plagiarism_flag = "YES" /\ output[2].plagiarism_flag = "YES"

----------------------------------------------------------------------------
(* C9, C10: the Hidden Test Runner *)

\* the submissions run_all has finished with
Processed == {e.name : e \in submission_dirs} \ {queue[i].name : i \in 1..Len(queue)}

RecordsOf(name) == {i \in 1..Len(results) : results[i].repo_path = repo_path_of(name)}

\* C9: run_all returns exactly one TestResult per non-hidden submission directory, whatever
\* happens inside a submission; at every moment each submission already processed has its
\* one record, so a failure neither removes a record nor prevents a later one
C9_OneResultPerSubmission ==
    /\ htr_pc \in {"loop", "pip", "tests", "returned"} =>
          /\ \A name \in Processed : Cardinality(RecordsOf(name)) = 1
          /\ Len(results) = Cardinality(Processed)
    /\ htr_pc = "returned" =>
          /\ Processed = {e.name : e \in submission_dirs}
          /\ Len(results) = Cardinality(submission_dirs)

\* run_all has returned four records after four submissions that each failed differently
C9_Witness ==
    /\ htr_pc = "returned"
    /\ Len(results) = 4
    /\ DOMAIN events = {labX_alice, labX_bob, labX_carol, labX_dave}
    /\ events[labX_alice] = "copy failed"
    /\ events[labX_bob] = "raised"
    /\ events[labX_carol] = "no src"
    /\ events[labX_dave] = "config unreadable"

\* the diagnostics that contain "timed out"
TimedOutTexts == {"Test execution timed out"}

\* C10: a submission whose test process exceeded the timeout has a record with
\* tests_passed = 0, tests_total = 0, score 0 and an error containing "timed out", and
\* run_all still returns a record for every submission
C10_TimeoutYieldsZeroRecord ==
    \A name \in DOMAIN events :
        events[name] = "timeout" =>
            /\ \E i \in RecordsOf(name) :
                  /\ results[i].tests_passed = 0
                  /\ results[i].tests_total = 0
                  /\ results[i].hidden_score.num = 0
                  /\ \E k \in 1..Len(results[i].errors) :
                        results[i].errors[k].text \in TimedOutTexts
            /\ htr_pc = "returned" =>
                  \A e \in submission_dirs : RecordsOf(e.name) # {}

\* labX-alice timed out, and labX-bob, processed after it, passed its two tests
C10_Witness ==
    /\ htr_pc = "returned"
    /\ Len(results) = 2
    /\ DOMAIN events = {labX_alice, labX_bob}
    /\ events[labX_alice] = "timeout"
    /\ results[1].errors = <<Message("Test execution timed out", 24)>>
    /\ results[2].student_id = bob
    /\ results[2].tests_passed = 2

----------------------------------------------------------------------------
(* C11..C16: the Hidden Test Runner, from its construction to its results file *)

\* the entry of the submissions directory with a given name
EntryOf(name) == CHOOSE e \in submissions : e.name = name

\* the runtime binary of the assignment's language is absent
RuntimeMissing == language \in {"racket", "prolog"} /\ ~interpreter

\* C11: when the runtime binary of the language (raco, swipl) is absent, every submission
\* that has a src/ directory gets a record with tests_passed = 0, tests_total = 0 and a
\* non-empty errors list; a submission whose sandbox was filled ends with the "not
\* installed" diagnostic and not with an exception; and the batch has a record for every
\* submission
C11_MissingRuntimeYieldsZeroRecords ==
    RuntimeMissing =>
        /\ \A name \in DOMAIN events :
              /\ EntryOf(name).has_src =>
                    \E i \in RecordsOf(name) :
                        /\ results[i].tests_passed = 0
                        /\ results[i].tests_total = 0
                        /\ results[i].hidden_score.num = 0
                        /\ results[i].errors # <<>>
              /\ events[name] \in {"interpreter missing", "no src", "copy failed",
                                   "config unreadable"}
        /\ htr_pc \in {"returned", "exported", "done", "ZeroDivisionError"} =>
              \A e \in submission_dirs : Cardinality(RecordsOf(e.name)) = 1

\* raco is absent: labX-alice and labX-bob both end with the diagnostic, in two records
C11_Witness ==
    /\ htr_pc = "returned"
    /\ language = "racket" /\ ~interpreter
    /\ DOMAIN events = {labX_alice, labX_bob}
    /\ events[labX_alice] = "interpreter missing"
    /\ events[labX_bob] = "interpreter missing"
    /\ Len(results) = 2
    /\ results[2].errors = <<racket_missing>>

\* C12: if the hidden tests directory of the assignment does not exist, the constructor
\* fails with ValueError before any submission is touched: no temporary directory is
\* created, no submission is processed, no results file is written
C12_MissingHiddenTestsFailsFast ==
    ~hidden_tests.exists =>
        /\ htr_pc \in {"start", "ValueError"}
        /\ sandboxes = {} /\ tmpdirs = {}
        /\ events = <<>> /\ results = <<>>
        /\ exported = <<>>

\* the constructor has failed although there are submissions to test
C12_Witness ==
    /\ htr_pc = "ValueError"
    /\ ~hidden_tests.exists
    /\ {labX_alice, labX_bob} \subseteq {e.name : e \in submission_dirs}

\* C13: every score computed from counts with total = 0 is 0, no score has a zero
\* denominator, and with total > 0 the score is passed / total * 100; in the records of the
\* Hidden Test Runner and in the visible-score extraction of export_grades.py
C13_ScoreFlooredAtZeroTotal ==
    \A e \in score_evals :
        /\ e.score.den > 0
        /\ e.total = 0 => e.score.num = 0
        /\ e.total > 0 => e.score.num * e.total = e.passed * 100 * e.score.den

\* a visible score from no test at all, and a hidden score of 1 test passed out of 2
C13_Witness ==
    /\ Scored("export_grades", 0, 0, [num |-> 0, den |-> 1]) \in score_evals
    /\ Scored("run_on_submission", 1, 2, [num |-> 100, den |-> 2]) \in score_evals
    /\ Scored("run_on_submission", 0, 0, Zero) \in score_evals

\* C14: the temporary directory created for a submission is gone once run_on_submission
\* is over, however it ended: between two submissions and after the loop no temporary
\* directory exists, and the only one that ever exists is that of the running submission
C14_SandboxRemovedOnEveryExit ==
    /\ htr_pc \in {"loop", "returned", "exported", "done", "ZeroDivisionError"} =>
          tmpdirs = {}
    /\ \A name \in DOMAIN events : name \notin tmpdirs
    /\ tmpdirs \subseteq {running.name}

\* temporary directories were created for three submissions, which ended with a timeout,
\* an exception that reached run_all, and the early return for a missing src/
C14_Witness ==
    /\ htr_pc = "returned"
    /\ sandboxes = {labX_alice, labX_bob, labX_carol}
    /\ DOMAIN events = {labX_alice, labX_bob, labX_carol}
    /\ events[labX_alice] = "timeout"
    /\ events[labX_bob] = "copy failed"
    /\ events[labX_carol] = "no src"
    /\ tmpdirs = {}

\* C15: nothing a submission's run can observe is changed by the submissions processed
\* before it: each run finds installed exactly the packages the first run would find,
\* whatever requirements.txt an earlier submission had
C15_NothingSharedAcrossSubmissions ==
    \A name \in DOMAIN observed : observed[name] = {}

\* C16: run_all processes the submission directories in ascending order, one at a time,
\* never an entry that is hidden or not a directory, and the list it returns is in that
\* order
C16_SortedOrderSkippingHidden ==
    /\ \A i, j \in 1..Len(results) :
          i < j => TextLess(results[i].repo_path, results[j].repo_path)
    /\ \A i \in 1..Len(results) : \A k \in 1..Len(queue) :
          TextLess(results[i].repo_path, repo_path_of(queue[k].name))
    /\ \A name \in DOMAIN events \cup sandboxes :
          EntryOf(name).is_dir /\ name[1] # "."
    /\ \A i \in 1..Len(results) :
          \E e \in submissions :
              e.is_dir /\ e.name[1] # "." /\ results[i].repo_path = repo_path_of(e.name)
    /\ Cardinality(tmpdirs) <= 1

\* all six entries are in the directory: four records, alice to dave, none for .git or notes
C16_Witness ==
    /\ htr_pc = "returned"
    /\ submissions = EntryPool
    /\ Len(results) = 4
    /\ results[1].student_id = alice /\ results[2].student_id = bob
    /\ results[3].student_id = carol /\ results[4].repo_path = repo_path_of(labX_dave)

----------------------------------------------------------------------------
(* C17: the two extractions of a student id *)

\* C17: for every repository name the runner's extraction is the text after the last
\* hyphen (the name itself without a hyphen), extracting again changes nothing, and the
\* Grade Calculator's extraction from a plagiarism submission name gives the same id
C17_ExtractionLastTokenIdempotent ==
    \A i \in 1..Len(extract_eval) :
        /\ extract_eval[i].runner = LastToken(extract_eval[i].name)
        /\ extract_eval[i].again = extract_eval[i].runner
        /\ extract_eval[i].calculator = extract_eval[i].runner

\* a name with two hyphens in a row: the id is what follows the second
C17_Witness ==
    /\ Len(extract_eval) = 1
    /\ extract_eval[1].name = <<"a", "-", "-", "b">>
    /\ extract_eval[1].runner = <<"b">>

----------------------------------------------------------------------------
(* C18..C20: the Pipeline Orchestrator *)

StepsCalled == [i \in 1..Len(stage_log) |-> stage_log[i].step]

StepsExpected == IF skip_clone THEN Tail(StepNames) ELSE StepNames

\* C18: the steps are called in the order Clone, ExtractVisible, RunHidden,
\* CheckPlagiarism, CalculateFinal, ExportLMS, each at most once; CalculateFinal receives
\* the paths the three steps before it returned, and ExportLMS the path CalculateFinal
\* returned
C18_StagesInOrderThreadingArtifacts ==
    /\ Len(StepsCalled) <= Len(StepsExpected)
    /\ StepsCalled = SubSeq(StepsExpected, 1, Len(StepsCalled))
    /\ pipe_pc = "complete" => StepsCalled = StepsExpected
    /\ "step5_calculate_final_grades" \in DOMAIN received =>
          received["step5_calculate_final_grades"] =
              <<returned["step2_extract_visible_scores"],
                returned["step3_run_hidden_tests"],
                returned["step4_plagiarism_check"]>>
    /\ "step6_export_for_lms" \in DOMAIN received =>
          received["step6_export_for_lms"] = <<returned["step5_calculate_final_grades"]>>

\* a complete run of the six steps, the final grades computed from the three files
C18_Witness ==
    /\ pipe_pc = "complete"
    /\ ~skip_clone
    /\ Len(stage_log) = 6
    /\ received["step5_calculate_final_grades"] = <<VisibleFile, HiddenFile, SimilarityFile>>
    /\ files = {VisibleFile, HiddenFile, SimilarityFile}

\* the repositories in the submissions directory: what run_all takes for a submission
Repositories == {e \in submissions_dir : e.is_dir /\ e.name[1] # "."}

\* C19: if the Clone step leaves no repository, no later step runs and no artifact is
\* written; if it leaves one, or is skipped, the run is never aborted and ends complete
\* after all five later steps
C19_OnlyCloneAborts ==
    /\ ("step1_clone_submissions" \in DOMAIN received /\ Repositories = {}) =>
          /\ Len(stage_log) = 1
          /\ pipe_pc = "aborted"
          /\ files = {}
    /\ pipe_pc = "aborted" =>
          /\ ~skip_clone
          /\ Repositories = {}
    /\ pipe_pc = "complete" =>
          /\ Len(StepsCalled) >= 5
          /\ SubSeq(StepsCalled, Len(StepsCalled) - 4, Len(StepsCalled)) = Tail(StepNames)

\* what a step depends on is absent: its script, or the file it reads
Lacking(step) ==
    CASE step = "step2_extract_visible_scores" -> "export_grades.py" \notin scripts
      [] step = "step3_run_hidden_tests" -> "run_hidden_tests.py" \notin scripts
      [] step = "step4_plagiarism_check" ->
             "run_jplag.sh" \notin scripts /\ "run_moss.sh" \notin scripts
      [] step = "step5_calculate_final_grades" -> "grade_calculator.py" \notin scripts
      [] step = "step6_export_for_lms" -> received[step][1] \notin files
      [] OTHER -> FALSE

\* C20: a step other than Clone whose script or input file is absent logs a warning and
\* still leaves a file at the path it returns
C20_EveryStageLeavesItsArtifact ==
    \A i \in 1..Len(stage_log) :
        Lacking(stage_log[i].step) =>
            /\ stage_log[i].warning
            /\ returned[stage_log[i].step] \in files


\* C21: two runs of the pipeline for the same course and assignment never share
\* an output path: the visible, hidden, plagiarism, final and LMS paths of a
\* later run all differ from those of an earlier one, also when both start
\* within one clock minute.
C21_RerunsNeverOverwrite ==
    \A i, j \in DOMAIN runs :
        (i < j /\ runs[i].course_id = runs[j].course_id
               /\ runs[i].assignment_id = runs[j].assignment_id)
        => \A kind \in DOMAIN output_paths(runs[i]) :
               output_paths(runs[i])[kind] # output_paths(runs[j])[kind]

\* a source file that is missing, or has a row without an identity column or with a
\* score that is no number
MalformedRow(row) ==
    \/ \A column \in {"identifier", "student_id", "Student ID", "submission1"} :
           column \notin DOMAIN row
    \/ \E column \in {"grade", "Hidden Score", "similarity"} :
           column \in DOMAIN row /\ float(row[column]).raised

MalformedFile(file) ==
    file = NoFile \/ (file # NotRead /\ \E i \in DOMAIN file : MalformedRow(file[i]))

\* C22: a score source that is missing or malformed is treated as empty: no load
\* raises, no record comes from it, and calculate_final_grades and export_grades
\* complete
C22_MalformedSourceTreatedAsEmpty ==
    (MalformedFile(visible_csv) \/ MalformedFile(hidden_csv) \/ MalformedFile(plagiarism_csv))
    => /\ raised = ""
       /\ None \notin DOMAIN grades

\* C23: a standalone command exits non-zero only for a fatal configuration error;
\* failing tests, and a valid run over zero submissions, end with exit status 0.
\* Stated of run_hidden_tests.py, whose only configuration error is that the hidden
\* tests of the assignment are missing.
C23_NonZeroExitOnlyForConfigurationError ==
    (HTREnded /\ exit_status(htr_pc) # 0) => ~hidden_tests.exists


\* the keys of a variant config
ConfigKeysOf(config) == {config.items[i].key : i \in DOMAIN config.items}

ValueOf(config, key) ==
    config.items[CHOOSE i \in DOMAIN config.items : config.items[i].key = key].value

\* what a piece of a template is to become: a placeholder of the config its value,
\* a path of the language its local form, anything else itself
SubstitutedChunk(chunk, config, lang) ==
    IF \E k \in ConfigKeysOf(config) : chunk = placeholder(k)
    THEN LET k == CHOOSE key \in ConfigKeysOf(config) : chunk = placeholder(key)
         IN  stringified(ValueOf(config, k))
    ELSE IF lang = "prolog" /\ chunk \in PathChunks /\ StartsWith(chunk, PrologLoad)
    THEN PrologLoad
    ELSE IF lang = "racket" /\ chunk \in PathChunks /\ StartsWith(chunk, RacketRequire)
    THEN RacketRequire \o <<".", "/">>
    ELSE chunk

Substituted(chunks, config, lang) ==
    Flatten([i \in DOMAIN chunks |-> SubstitutedChunk(chunks[i], config, lang)])

\* the characters of a placeholder occur in placeholders only
WellFormedTemplate(chunks) == \A i \in DOMAIN chunks : chunks[i] \notin StrayChunks

PlainConfig(config) == \A i \in DOMAIN config.items : config.items[i].value \in PlainValues

\* C24 as stated: for every template and every variant config, the customized text
\* holds no placeholder ${k} of a key k of the config, and with the config absent or
\* empty it is the template with its paths rewritten only
C24_NoPlaceholderOfTheConfigIsLeft ==
    inject_eval # <<>> =>
        LET e == inject_eval[1]
        IN  /\ \A k \in ConfigKeysOf(e.config) : ~ContainsText(e.customized, placeholder(k))
            /\ ConfigKeysOf(e.config) = {} =>
                   e.customized = Substituted(e.chunks, NoConfig, e.language)

\* C24, amended: for a template in which `$`, `{` and `}` occur in placeholders only
\* and a config whose values hold none of these characters, every placeholder of a
\* key of the config is replaced by its stringified value, every other piece of the
\* template is kept, and no placeholder of the config is left; with the config absent
\* or empty only the paths are rewritten
C24_PlainConfigReplacesEveryPlaceholder ==
    inject_eval # <<>> =>
        LET e == inject_eval[1]
        IN  (WellFormedTemplate(e.chunks) /\ PlainConfig(e.config)) =>
                /\ e.customized = Substituted(e.chunks, e.config, e.language)
                /\ \A k \in ConfigKeysOf(e.config) :
                       ~ContainsText(e.customized, placeholder(k))

C24_Witness ==
    /\ inject_eval # <<>>
    /\ inject_eval[1].chunks = <<placeholder(<<"a">>), placeholder(<<"b">>), placeholder(<<"a">>)>>
    /\ inject_eval[1].config =
           Dict(<<Item(<<"b">>, StrValue(<<"x">>)), Item(<<"a">>, IntValue(12))>>)
    /\ inject_eval[1].customized = <<"1", "2", "x", "1", "2">>

\* C25: when CalculateFinal is reached with the visible scores present and the hidden
\* scores absent, the Grade Calculator command the stage runs completes and writes the
\* final grades
C25_VisibleOnlyGradesAreFinalized ==
    (/\ "step5_calculate_final_grades" \in DOMAIN returned
     /\ "grade_calculator.py" \in scripts
     /\ VisibleFile \in files
     /\ HiddenFile \notin files)
    => returned["step5_calculate_final_grades"] \in files

\* C26: the data rows export_grades writes are in ascending order of student identity,
\* one row for each record of the merge table and no other, in whatever order the
\* sources were loaded
C26_RowsAscendingOnePerRecord ==
    (calls # <<>> /\ calls[Len(calls)] = "export_grades") =>
        /\ Len(output) = Cardinality(DOMAIN grades)
        /\ \A student_id \in DOMAIN grades :
               \E i \in DOMAIN output : output[i] = grade_row(grades[student_id])
        /\ \A i, j \in DOMAIN output :
               i < j => TextLess(output[i].student_id, output[j].student_id)

C26_Witness ==
    /\ calls = <<"load_plagiarism_results", "load_hidden_scores", "load_visible_scores",
                 "calculate_final_grades", "export_grades">>
    /\ Len(hidden_csv) = 1 /\ hidden_csv[1]["Student ID"] = bob
    /\ Len(output) = 2
    /\ output[1].student_id = alice /\ output[2].student_id = bob

\* the longest text run_on_submission keeps of a diagnostic: results["error"][:500]
DiagnosticLimit == 500

\* C27: every diagnostic stored in the errors of a record is truncated to a bounded
\* length, whichever path made the record: the error of the test run, an exception
\* caught in run_on_submission, an exception caught by run_all
C27_EveryDiagnosticTruncated ==
    \A i \in DOMAIN results :
        \A k \in DOMAIN results[i].errors : results[i].errors[k].length <= DiagnosticLimit

\* C28: every external process started for a submission is bounded by a timeout: even
\* if no such process ever ends by itself, run_on_submission returns a record for
\* every submission and run_all, once in its loop, returns the batch
C28_BatchReturnsWhateverProcessesDo == (htr_pc = "loop") ~> (htr_pc = "returned")

\* C29: two different submission directories of a batch get different student_id
\* values from the runner, and after load_hidden_scores on the exported file the
\* merge table holds one record for each submission
C29_DistinctSubmissionsDistinctRecords ==
    /\ \A i, j \in DOMAIN results :
           results[i].repo_path # results[j].repo_path
           => results[i].student_id # results[j].student_id
    /\ Called("load_hidden_scores") => Cardinality(DOMAIN grades) = Len(results)

\* the fields of the merge table that the loads set
MergedFields(g) ==
    [student_id \in DOMAIN g |->
        [visible_score |-> g[student_id].visible_score,
         hidden_score |-> g[student_id].hidden_score,
         plagiarism_similarity |-> g[student_id].plagiarism_similarity,
         plagiarism_partner |-> g[student_id].plagiarism_partner]]

\* the table main() builds from the three files read: visible, hidden, plagiarism
MergedAsMain ==
    load_plagiarism_results(
        load_hidden_scores(load_visible_scores(<<>>, visible_csv).grades, hidden_csv).grades,
        plagiarism_csv).grades

\* C30 as stated: whatever the order of the three loads, the same files give the same
\* records with the same visible_score, hidden_score, plagiarism_similarity and
\* plagiarism_partner
C30_TableIndependentOfLoadOrder ==
    Len(calls) = 3 => MergedFields(grades) = MergedFields(MergedAsMain)

\* C30, amended: the two score loads in either order, followed by
\* load_plagiarism_results, give the same records with the same four fields
C30_TableIndependentOfScoreLoadOrder ==
    (Len(calls) = 3 /\ calls[3] = "load_plagiarism_results")
    => MergedFields(grades) = MergedFields(MergedAsMain)

C30_Witness ==
    /\ calls = <<"load_hidden_scores", "load_visible_scores", "load_plagiarism_results">>
    /\ DOMAIN grades = {alice, bob}
    /\ grades[alice].hidden_score > 0 /\ grades[alice].visible_score > 0
    /\ grades[bob].hidden_score > 0 /\ grades[bob].visible_score = 0
    /\ grades[alice].plagiarism_similarity > 0

====
